---- MODULE Spec2Model ----
(***************************************************************************)
(* Model of the RFP analyzer core: the analysis workflow (graph/workflow.py *)
(* and graph/nodes.py), the multi-stage retrieval pipeline                  *)
(* (retrieval/pipeline.py, reranker.py, context_enricher.py), the parser of *)
(* model output (llm/output_parser.py), the ingestion loop (main.py), the  *)
(* chunking (chunking/strategies.py, intelligent_chunker.py), the batched   *)
(* re-ranker and the page numbers written to and read from the vector      *)
(* store.                                                                   *)
(*                                                                          *)
(* Strings whose characters matter (queries, section titles, filters) are   *)
(* sequences of one-character strings.  Optional values are sequences of    *)
(* length at most one: <<>> is None and <<x>> is the value x.  Scores are   *)
(* integers in thousandths (1000 is the score 1.0).                         *)
(***************************************************************************)
EXTENDS Integers, Sequences, FiniteSets, TLC

VARIABLES
    \* ---- one run of RFPAnalysisGraph.run ----
    request,        \* the AnalysisRequest handed to run
    state,          \* the GraphState the nodes read and update
    pc,             \* the node the graph executes next, "END", or "done"
    trace,          \* the nodes executed so far, each with whether it raised
    templates,      \* the prompt templates the analyzer was asked to use
    outcome,        \* how run ended: "running", "returned" or "raised"
    result,         \* Optional: the AnalysisResponse run returned
    \* ---- one call of RetrievalPipeline.retrieve ----
    rin,            \* the arguments and configuration of the call
    rpc,            \* the stage retrieve executes next, or "idle" / "done"
    rdocs,          \* the (document, score) list handed from stage to stage
    rstages,        \* the stages invoked so far, in order
    rcalls,         \* counts of collaborator calls: vector store and model
    rinfo,          \* bookkeeping of the call: sizes after each stage
    rout,           \* the list of RetrievedChunk the call returned
    \* ---- one call of StructuredOutputParser ----
    pin,            \* the method called and its argument
    ppc,            \* "call", "again" (a second normalization) or "done"
    pout,           \* what the calls returned, in order
    \* ---- one call of a function that writes the collection ----
    ifiles,         \* the PDF files found, each with how its steps go
    ipc,            \* of ingest_documents: "setup", "loop" while the for loop
                    \* runs, then "done" / "raised"; "handlers" when the calls
                    \* are those of callbacks of the server's event loop
    iseen,          \* the files the loop has taken, each with its outcome
    istore,         \* the chunks the vector store holds, in order of adding
    itotal,         \* total_chunks
    icall,          \* the calls in flight: the function, its arguments, its
                    \* position ("call", "await", "done", "raised"), its result
    \* ---- one chunker constructed and called, or one call of split ----
    cin,            \* the arguments, the strategy, its sizes and the text
    cpc,            \* "new", "call", then "done" / "raised"
    cout,           \* the chunks split returned
    \* ---- two calls of retrieve against one index ----
    qin,            \* the arguments and what the index answers to a search
    qpc,            \* "call" until both calls have returned, then "done"
    qout,           \* what the calls returned, in order
    \* ---- one call of a single operation: batch_rerank, or add_chunks
    \* ---- followed by _to_retrieved_chunks
    uin,            \* the operation and its arguments
    upc,            \* "call", "stored" (metadata written, not yet read) or "done"
    uout            \* what the operations returned, in order

vars == <<request, state, pc, trace, templates, outcome, result,
         rin, rpc, rdocs, rstages, rcalls, rinfo, rout,
         pin, ppc, pout,
         ifiles, ipc, iseen, istore, itotal, icall,
         cin, cpc, cout,
         qin, qpc, qout,
         uin, upc, uout>>

\* what an action of one component leaves alone
notWf == <<rin, rpc, rdocs, rstages, rcalls, rinfo, rout,
          pin, ppc, pout,
          ifiles, ipc, iseen, istore, itotal, icall,
          cin, cpc, cout,
          qin, qpc, qout,
          uin, upc, uout>>
notRt == <<request, state, pc, trace, templates, outcome, result,
          pin, ppc, pout,
          ifiles, ipc, iseen, istore, itotal, icall,
          cin, cpc, cout,
          qin, qpc, qout,
          uin, upc, uout>>
notPs == <<request, state, pc, trace, templates, outcome, result,
          rin, rpc, rdocs, rstages, rcalls, rinfo, rout,
          ifiles, ipc, iseen, istore, itotal, icall,
          cin, cpc, cout,
          qin, qpc, qout,
          uin, upc, uout>>
notIg == <<request, state, pc, trace, templates, outcome, result,
          rin, rpc, rdocs, rstages, rcalls, rinfo, rout,
          pin, ppc, pout,
          cin, cpc, cout,
          qin, qpc, qout,
          uin, upc, uout>>
notCk == <<request, state, pc, trace, templates, outcome, result,
          rin, rpc, rdocs, rstages, rcalls, rinfo, rout,
          pin, ppc, pout,
          ifiles, ipc, iseen, istore, itotal, icall,
          qin, qpc, qout,
          uin, upc, uout>>
notCl == <<request, state, pc, trace, templates, outcome, result,
          rin, rpc, rdocs, rstages, rcalls, rinfo, rout,
          pin, ppc, pout,
          ifiles, ipc, iseen, istore, itotal, icall,
          cin, cpc, cout,
          qin, qpc, qout>>

\* ------------------------------------------------------------------------
\* Bounds of the model
\* ------------------------------------------------------------------------
MaxChunks == 2
MaxNodes == 6

\* ------------------------------------------------------------------------
\* Python values
\* ------------------------------------------------------------------------
None == <<>>
Some(x) == <<x>>

\* bool(x) of an Optional[str]: None and "" are falsy
Truthy(opt) == opt # <<>> /\ opt[1] # ""

\* str.lower() of one character
LowerChar(c) ==
    LET UpperToLower ==
        [A |-> "a", B |-> "b", C |-> "c", D |-> "d", E |-> "e", F |-> "f",
         G |-> "g", H |-> "h", I |-> "i", J |-> "j", K |-> "k", L |-> "l",
         M |-> "m", N |-> "n", O |-> "o", P |-> "p", Q |-> "q", R |-> "r",
         S |-> "s", T |-> "t", U |-> "u", V |-> "v", W |-> "w", X |-> "x",
         Y |-> "y", Z |-> "z"]
    IN IF c \in DOMAIN UpperToLower THEN UpperToLower[c] ELSE c

\* str.lower()
Lower(s) == [i \in 1..Len(s) |-> LowerChar(s[i])]

\* `needle in hay` for two strings
Contains(hay, needle) ==
    \E off \in 0..(Len(hay) - Len(needle)) :
        \A j \in 1..Len(needle) : hay[off + j] = needle[j]

\* ------------------------------------------------------------------------
\* llm/analyzer.py: query-type detection and template choice
\* ------------------------------------------------------------------------
QueryTypes ==
    {"requirement_extraction", "gap_analysis", "compliance_check",
     "conflict_detection", "ambiguity_analysis", "general"}


AnyTermIn(terms, text) == \E t \in terms : Contains(text, t)

\* RFPAnalyzer.detect_query_type: first matching group, in source order
detect_query_type(query) ==
    LET query_lower == Lower(query)
        REQUIREMENT_TERMS ==
            { <<"r", "e", "q", "u", "i", "r", "e", "m", "e", "n", "t", "s", " ", "f", "o", "r">>,
              <<"w", "h", "a", "t", " ", "a", "r", "e", " ", "t", "h", "e", " ", "r", "e", "q", "u", "i", "r", "e", "m", "e", "n", "t", "s">>,
              <<"l", "i", "s", "t", " ", "r", "e", "q", "u", "i", "r", "e", "m", "e", "n", "t", "s">> }
        GAP_TERMS ==
            { <<"m", "i", "s", "s", "i", "n", "g">>,
              <<"g", "a", "p", "s">>,
              <<"w", "h", "a", "t", " ", "m", "i", "g", "h", "t", " ", "w", "e", " ", "b", "e", " ", "m", "i", "s", "s", "i", "n", "g">> }
        COMPLIANCE_TERMS ==
            { <<"c", "o", "m", "p", "l", "i", "a", "n", "t">>,
              <<"c", "o", "m", "p", "l", "i", "a", "n", "c", "e">>,
              <<"d", "o", "e", "s", " ", "o", "u", "r", " ", "a", "p", "p", "r", "o", "a", "c", "h">>,
              <<"i", "s", " ", "o", "u", "r">> }
        CONFLICT_TERMS ==
            { <<"c", "o", "n", "f", "l", "i", "c", "t">>,
              <<"r", "e", "a", "l", "i", "s", "t", "i", "c">>,
              <<"t", "i", "m", "e", "l", "i", "n", "e">>,
              <<"b", "u", "d", "g", "e", "t">>,
              <<"s", "c", "o", "p", "e", " ", "t", "o", "g", "e", "t", "h", "e", "r">> }
        AMBIGUITY_TERMS ==
            { <<"a", "m", "b", "i", "g", "u", "o", "u", "s">>,
              <<"u", "n", "c", "l", "e", "a", "r">>,
              <<"w", "h", "a", "t", " ", "d", "o", "e", "s">>,
              <<"m", "e", "a", "n", "i", "n", "g", " ", "o", "f">> }
    IN
    IF AnyTermIn(REQUIREMENT_TERMS, query_lower) THEN "requirement_extraction"
    ELSE IF AnyTermIn(GAP_TERMS, query_lower) THEN "gap_analysis"
    ELSE IF AnyTermIn(COMPLIANCE_TERMS, query_lower) THEN "compliance_check"
    ELSE IF AnyTermIn(CONFLICT_TERMS, query_lower) THEN "conflict_detection"
    ELSE IF AnyTermIn(AMBIGUITY_TERMS, query_lower) THEN "ambiguity_analysis"
    ELSE "general"

\* RFPAnalyzer._get_template_name: the mapping is the identity on the six
\* query types, anything else maps to "general"
get_template_name(query_type) ==
    IF query_type \in QueryTypes THEN query_type ELSE "general"

\* ------------------------------------------------------------------------
\* Inputs of a run
\* ------------------------------------------------------------------------

\* str(e) of the exceptions a collaborator raises; an exception built
\* without arguments has the empty string
ErrorMessages == {"", "boom"}

\* what the retrieval pipeline may hand back: lists of chunk ids
RECURSIVE ChunkListsUpTo(_)
ChunkListsUpTo(n) ==
    IF n = 0 THEN {<<>>}
    ELSE LET shorter == ChunkListsUpTo(n - 1) IN
         shorter \cup {Append(l, Len(l) + 1) : l \in {s \in shorter : Len(s) = n - 1}}

\* what the output parser may hand back for the model's reply
ParsedAnalyses ==
    { [extracted_requirements |-> <<>>, reasoning |-> <<"no json">>,
       confidence |-> 30, uncertainties |-> <<>>],
      [extracted_requirements |-> <<"REQ-001">>, reasoning |-> <<"ok">>,
       confidence |-> 80, uncertainties |-> <<"unclear scope">>] }

\* ------------------------------------------------------------------------
\* models/responses.py: AnalysisResponse
\* ------------------------------------------------------------------------
\* pydantic validation of the constructor's keyword arguments: the fields
\* declared with Field(...), i.e. without a default, must be given
AnalysisResponseValid(given) == {"reasoning", "query"} \subseteq given

\* ------------------------------------------------------------------------
\* graph/state.py and RFPAnalysisGraph.run: the initial GraphState
\* ------------------------------------------------------------------------
InitialState(req) ==
    [query |-> req.query,
     query_type |-> req.query_type,
     project_filter |-> req.project_name,
     retrieved_chunks |-> <<>>,
     analysis_response |-> None,
     error |-> None,
     current_step |-> "start"]

\* ------------------------------------------------------------------------
\* graph/workflow.py: routing
\* ------------------------------------------------------------------------
route_after_query(s) == IF Truthy(s.error) THEN "handle_error" ELSE "retrieve_documents"

route_after_retrieval_empty_ends(s) ==
    IF Truthy(s.error) THEN "handle_error"
    ELSE IF s.retrieved_chunks = <<>> THEN "END"
    ELSE "analyze_content"

route_after_retrieval(s) ==
    IF Truthy(s.error) THEN "handle_error"
    ELSE IF s.retrieved_chunks = <<>> THEN "analyze_content"
    ELSE "analyze_content"

route_after_analysis(s) == IF Truthy(s.error) THEN "handle_error" ELSE "END"

\* graph.add_edge("handle_error", END)
edge_from_handle_error == "END"

\* the except branch shared by the three stages
Failed(s, msg) == [s EXCEPT !.error = Some(msg), !.current_step = "error"]

Executed(node, raised) == Append(trace, [node |-> node, raised |-> raised])

\* ------------------------------------------------------------------------
\* graph/nodes.py: the nodes, each followed by its outgoing edge
\* ------------------------------------------------------------------------
process_query ==
    /\ pc = "process_query"
    /\ Len(trace) < MaxNodes
    /\ \E raises \in BOOLEAN, msg \in ErrorMessages :
        \* the detector is only called for an unspecified (general) type
        /\ raises => request.query_type = "general"
        /\ ~raises => msg = "boom"
        /\ LET detected_type ==
                   IF request.query_type = "general"
                   THEN detect_query_type(state.query)
                   ELSE request.query_type
               project_filter ==
                   IF ~Truthy(state.project_filter)
                   THEN request.project_name
                   ELSE state.project_filter
               s2 == IF raises THEN Failed(state, msg)
                     ELSE [state EXCEPT !.query_type = detected_type,
                                        !.project_filter = project_filter,
                                        !.current_step = "query_processed"]
           IN /\ state' = s2
              /\ pc' = route_after_query(s2)
              /\ trace' = Executed("process_query", raises)
    /\ UNCHANGED <<request, templates, outcome, result, notWf>>

retrieve_documents ==
    /\ pc = "retrieve_documents"
    /\ Len(trace) < MaxNodes
    /\ \E raises \in BOOLEAN, msg \in ErrorMessages, chunks \in ChunkListsUpTo(MaxChunks) :
        /\ raises => chunks = <<>>
        /\ ~raises => msg = "boom"
        /\ LET s2 == IF raises THEN Failed(state, msg)
                     ELSE [state EXCEPT !.retrieved_chunks = chunks,
                                        !.current_step = "documents_retrieved"]
           IN /\ state' = s2
              /\ pc' = route_after_retrieval(s2)
              /\ trace' = Executed("retrieve_documents", raises)
    /\ UNCHANGED <<request, templates, outcome, result, notWf>>

analyze_content ==
    /\ pc = "analyze_content"
    /\ Len(trace) < MaxNodes
    /\ \E raises \in BOOLEAN, msg \in ErrorMessages, parsed \in ParsedAnalyses :
        /\ raises => parsed.confidence = 30
        /\ ~raises => msg = "boom"
        /\ LET response ==
                   [extracted_requirements |-> parsed.extracted_requirements,
                    reasoning |-> parsed.reasoning,
                    confidence |-> parsed.confidence,
                    uncertainties |-> parsed.uncertainties,
                    query |-> request.query,
                    retrieved_chunks |-> state.retrieved_chunks]
               s2 == IF raises THEN Failed(state, msg)
                     ELSE [state EXCEPT !.analysis_response = Some(response),
                                        !.current_step = "analysis_complete"]
           IN /\ state' = s2
              /\ pc' = route_after_analysis(s2)
              /\ trace' = Executed("analyze_content", raises)
        \* analyze is handed state.request, so the template is the one of
        \* the request's own query type
        /\ templates' = Append(templates, get_template_name(request.query_type))
    /\ UNCHANGED <<request, outcome, result, notWf>>

ErrorNote == "Analysis could not be completed due to an error"
ErrorPrefix == "An error occurred during analysis: "

error_response(s) ==
    [extracted_requirements |-> <<>>,
     \* str(None) is "None" in an f-string
     reasoning |-> <<ErrorPrefix, IF s.error = None THEN "None" ELSE s.error[1]>>,
     confidence |-> 0,
     uncertainties |-> <<ErrorNote>>,
     query |-> IF s.query # <<>> THEN s.query
               ELSE <<"U", "n", "k", "n", "o", "w", "n", " ", "q", "u", "e", "r", "y">>,
     retrieved_chunks |-> <<>>]

handle_error ==
    /\ pc = "handle_error"
    /\ Len(trace) < MaxNodes
    /\ state' = [state EXCEPT !.analysis_response = Some(error_response(state)),
                              !.current_step = "error_handled"]
    /\ pc' = edge_from_handle_error
    /\ trace' = Executed("handle_error", FALSE)
    /\ UNCHANGED <<request, templates, outcome, result, notWf>>

\* RFPAnalysisGraph.run after the graph reached END
run_return ==
    /\ pc = "END"
    /\ pc' = "done"
    /\ IF state.analysis_response # None
       THEN /\ outcome' = "returned"
            /\ result' = state.analysis_response
       \* the keyword arguments of the fallback response
       ELSE IF AnalysisResponseValid({"extracted_requirements", "reasoning", "confidence"})
       THEN /\ outcome' = "returned"
            /\ result' = Some([extracted_requirements |-> <<>>,
                               reasoning |-> <<"No response generated">>,
                               confidence |-> 0, uncertainties |-> <<>>,
                               query |-> <<>>, retrieved_chunks |-> <<>>])
       ELSE /\ outcome' = "raised"
            /\ result' = None
    /\ UNCHANGED <<request, state, trace, templates, notWf>>

\* the requests of the model: a query, a query type, an optional project
\* name and an optional target section
Requests ==
    LET Queries ==
            { <<"G", "a", "p", "s", "?">>,
              <<"I", "s", " ", "o", "u", "r", " ", "p", "l", "a", "n", " ", "o", "k">>,
              <<"h", "e", "l", "l", "o">>,
              <<"B", "U", "D", "G", "E", "T">> }
        ProjectNames == {None, Some(""), Some("alpha")}
        TargetSections == {None, Some(""), Some("Security")}
    IN [query : Queries, query_type : QueryTypes,
        project_name : ProjectNames, target_section : TargetSections]

\* Every specification of this module is about one component; the state of
\* the components other than c is the one before any of their calls
OthersIdle(c) ==
    /\ IF c = "workflow" THEN TRUE
       ELSE /\ request = None
            /\ state = None
            /\ pc = "idle"
            /\ trace = <<>>
            /\ templates = <<>>
            /\ outcome = "idle"
            /\ result = None
    /\ IF c = "retrieval" THEN TRUE
       ELSE /\ rin = None
            /\ rpc = "idle"
            /\ rdocs = <<>>
            /\ rstages = <<>>
            /\ rcalls = [store |-> 0, model |-> 0]
            /\ rinfo = <<>>
            /\ rout = <<>>
    /\ IF c = "parser" THEN TRUE
       ELSE /\ pin = None
            /\ ppc = "idle"
            /\ pout = <<>>
    /\ IF c = "ingest" THEN TRUE
       ELSE /\ ifiles = <<>>
            /\ ipc = "idle"
            /\ iseen = <<>>
            /\ istore = <<>>
            /\ itotal = 0
            /\ icall = <<>>
    /\ IF c = "chunking" THEN TRUE
       ELSE /\ cin = None
            /\ cpc = "idle"
            /\ cout = <<>>
    /\ IF c = "repeat" THEN TRUE
       ELSE /\ qin = None
            /\ qpc = "idle"
            /\ qout = <<>>
    /\ IF c = "calls" THEN TRUE
       ELSE /\ uin = None
            /\ upc = "idle"
            /\ uout = <<>>

Init ==
    /\ request \in Requests
    /\ state = InitialState(request)
    /\ pc = "process_query"
    /\ trace = <<>>
    /\ templates = <<>>
    /\ outcome = "running"
    /\ result = None
    /\ OthersIdle("workflow")

Next ==
    \/ process_query
    \/ retrieve_documents
    \/ analyze_content
    \/ handle_error
    \/ run_return

Spec == Init /\ [][Next]_vars

\* every node returns or raises, and run then returns or raises
FairSpec == Spec /\ WF_vars(Next)

\* ------------------------------------------------------------------------
\* The vector store as the pipeline sees it
\* ------------------------------------------------------------------------
\* Distances are in quarters; a list of hits is what Chroma's
\* similarity_search_with_score returns, nearest first.
\* similarity = 1 / (1 + distance), in thousandths
Similarity(dq) == 4000 \div (4 + dq)

\* The chunks of the collection, as stored: metadata flattened to strings
Corpus ==
    LET Str_Sec == <<"S", "e", "c">>
        Str_SECURE == <<"S", "E", "C", "U", "R", "E">>
        Str_Cost == <<"C", "o", "s", "t">>
        Str_2_21 == <<"2", ",", "2", ".", "1">>
        Str_2_22 == <<"2", ",", "2", ".", "2">>
        Str_sec4 == <<"s", "e", "c", "4">>
    IN
    << [chunk_id |-> 1, section_title |-> Str_Sec, section_hierarchy |-> Str_2_21,
        references_sections |-> <<"3">>, content_refs |-> <<"4">>,
        page_content |-> <<"Security", "data">>, project_name |-> "alpha"],
       [chunk_id |-> 2, section_title |-> Str_Cost, section_hierarchy |-> Str_2_22,
        references_sections |-> <<"4", "5">>, content_refs |-> <<"6", "">>,
        page_content |-> <<"budget", "DATA">>, project_name |-> "alpha"],
       [chunk_id |-> 3, section_title |-> Str_SECURE, section_hierarchy |-> <<>>,
        references_sections |-> <<>>, content_refs |-> <<>>,
        page_content |-> <<"security">>, project_name |-> "beta"],
       [chunk_id |-> 4, section_title |-> <<>>, section_hierarchy |-> Str_sec4,
        references_sections |-> <<>>, content_refs |-> <<>>,
        page_content |-> <<"scope">>, project_name |-> "alpha"],
       [chunk_id |-> 5, section_title |-> Str_Cost, section_hierarchy |-> <<"5">>,
        references_sections |-> <<>>, content_refs |-> <<>>,
        page_content |-> <<"budget">>, project_name |-> "beta"],
       [chunk_id |-> 6, section_title |-> Str_Cost, section_hierarchy |-> <<"6">>,
        references_sections |-> <<>>, content_refs |-> <<>>,
        page_content |-> <<"timeline">>, project_name |-> "beta"],
       [chunk_id |-> 7, section_title |-> Str_Cost, section_hierarchy |-> <<"7">>,
        references_sections |-> <<>>, content_refs |-> <<>>,
        page_content |-> <<"scope">>, project_name |-> "alpha"] >>

Min(a, b) == IF a < b THEN a ELSE b

\* What the store may answer to the first search: at most k distinct chunks
\* in order of distance, all of the project when a project filter is given
StoreAnswers(k, filter_project) ==
    LET \* the chunks near enough to the query, and the distances reported
        NearQuery == {1, 2, 3}
        Distances == {0, 4, 12}
        ids == {i \in NearQuery :
                   filter_project = None \/ Corpus[i].project_name = filter_project[1]}
        hits == {[doc |-> Corpus[i], distance |-> d] : i \in ids, d \in Distances}
    IN {a \in UNION {[1..n -> hits] : n \in 0..Min(k, Cardinality(ids))} :
           /\ \A i, j \in 1..Len(a) : i < j => a[i].doc.chunk_id # a[j].doc.chunk_id
           /\ \A i \in 1..(Len(a) - 1) : a[i].distance <= a[i + 1].distance}

Hit(i, d) == [doc |-> Corpus[i], distance |-> d]

\* What the store may answer to the search for "section <ref>" (k = 2);
\* raises stands for an exception of the store
LookupAnswers(ref) ==
    CASE ref = "3" -> {[raises |-> FALSE, results |-> <<>>],
                       [raises |-> FALSE, results |-> <<Hit(4, 0), Hit(5, 4)>>]}
      [] ref = "4" -> {[raises |-> FALSE, results |-> <<Hit(1, 0), Hit(4, 4)>>],
                       [raises |-> TRUE, results |-> <<>>]}
      [] ref = "5" -> {[raises |-> FALSE, results |-> <<Hit(5, 0), Hit(6, 12)>>]}
      [] OTHER -> {[raises |-> FALSE, results |-> <<Hit(7, 4), Hit(6, 4)>>]}

\* the answers of the store to the searches for a set of references
RECURSIVE AnswerMaps(_)
AnswerMaps(refs) ==
    IF refs = {} THEN {<<>>}
    ELSE LET r == CHOOSE x \in refs : TRUE
         IN {(r :> a) @@ rest : a \in LookupAnswers(r), rest \in AnswerMaps(refs \ {r})}

\* ------------------------------------------------------------------------
\* config/settings.py and RetrievalPipeline.__init__
\* ------------------------------------------------------------------------
TopK == 2
SimilarityThreshold == 300
MaxAdditional == 3

\* ------------------------------------------------------------------------
\* vectorstore/chroma_store.py
\* ------------------------------------------------------------------------
\* ChromaVectorStore.similarity_search on the store's raw answer
similarity_search(raw, score_threshold) ==
    LET normalized_results ==
            [i \in 1..Len(raw) |->
                [doc |-> raw[i].doc, score |-> Similarity(raw[i].distance)]]
    IN IF score_threshold # None
       THEN SelectSeq(normalized_results, LAMBDA r : r.score >= score_threshold[1])
       ELSE normalized_results

\* ChromaVectorStore.search_by_project: the project filter goes to the store
search_by_project(raw) == similarity_search(raw, None)

\* ------------------------------------------------------------------------
\* retrieval/pipeline.py
\* ------------------------------------------------------------------------
\* RetrievalPipeline._initial_retrieval
initial_retrieval(raw, project_name) ==
    IF Truthy(project_name)
    THEN search_by_project(raw)
    ELSE similarity_search(raw, Some(SimilarityThreshold))

\* the project filter handed to the store by _initial_retrieval
StoreFilter(project_name) == IF Truthy(project_name) THEN project_name ELSE None

never_short_circuits(initial_results) == FALSE

\* `if not initial_results: return []`
short_circuits(initial_results) == initial_results = <<>>

section_matches_case_sensitive(doc, section_filter) ==
    \/ Contains(doc.section_title, section_filter)
    \/ Contains(doc.section_hierarchy, section_filter)

\* the test of the loop of _apply_filters
section_matches(doc, section_filter) ==
    LET section_lower == Lower(section_filter)
        section_title == Lower(doc.section_title)
        section_hierarchy == Lower(doc.section_hierarchy)
    IN Contains(section_title, section_lower) \/ Contains(section_hierarchy, section_lower)

RECURSIVE filter_loop(_, _, _, _)
filter_loop(documents, section_filter, i, filtered) ==
    IF i > Len(documents) THEN filtered
    ELSE filter_loop(documents, section_filter, i + 1,
                     IF section_matches(documents[i].doc, section_filter)
                     THEN Append(filtered, documents[i])
                     ELSE filtered)

\* RetrievalPipeline._apply_filters; section_filter is an Optional string
apply_filters(documents, section_filter) ==
    \* `if not section_filter`: None and "" are falsy
    IF section_filter = None \/ Len(section_filter[1]) = 0
    THEN documents
    ELSE LET filtered == filter_loop(documents, section_filter[1], 1, <<>>)
         IN IF filtered # <<>> THEN filtered ELSE documents

\* RetrievalPipeline._to_retrieved_chunks
to_retrieved_chunks(documents) ==
    [i \in 1..Len(documents) |->
        [chunk_id |-> documents[i].doc.chunk_id,
         relevance_score |-> documents[i].score,
         section |-> documents[i].doc.section_title]]

\* ------------------------------------------------------------------------
\* retrieval/reranker.py
\* ------------------------------------------------------------------------
RECURSIVE insert_desc_before_equals(_, _)
insert_desc_before_equals(sorted, x) ==
    IF sorted = <<>> THEN <<x>>
    ELSE IF Head(sorted).score > x.score
         THEN <<Head(sorted)>> \o insert_desc_before_equals(Tail(sorted), x)
         ELSE <<x>> \o sorted

\* list.sort(key=score, reverse=True): stable, equal scores keep their order
RECURSIVE insert_desc(_, _)
insert_desc(sorted, x) ==
    IF sorted = <<>> THEN <<x>>
    ELSE IF Head(sorted).score >= x.score
         THEN <<Head(sorted)>> \o insert_desc(Tail(sorted), x)
         ELSE <<x>> \o sorted

RECURSIVE sort_desc(_)
sort_desc(seq) ==
    IF seq = <<>> THEN <<>>
    ELSE insert_desc(sort_desc(SubSeq(seq, 1, Len(seq) - 1)), seq[Len(seq)])

\* reranked[:top_k] when top_k is truthy
truncate(seq, top_k) ==
    IF top_k # None /\ top_k[1] # 0
    THEN SubSeq(seq, 1, Min(top_k[1], Len(seq)))
    ELSE seq

\* the model's replies to the scoring prompt
Replies ==
    {[kind |-> "number", value |-> 0],
     [kind |-> "number", value |-> 100],
     [kind |-> "number", value |-> 150],
     [kind |-> "text", value |-> 0]}

\* ReRanker._score_document: float(reply) clamped to 0..100, 50 when the
\* reply is no number
score_document(reply) ==
    IF reply.kind = "number"
    THEN Min(100, IF reply.value > 0 THEN reply.value ELSE 0)
    ELSE 50

\* the scoring loop of ReRanker.rerank; replies maps a chunk id to the
\* model's reply for it
rerank_scored(documents, replies) ==
    [i \in 1..Len(documents) |->
        [doc |-> documents[i].doc,
         score |-> (3 * documents[i].score) \div 10
                   + 7 * score_document(replies[documents[i].doc.chunk_id])]]

\* ReRanker.rerank
rerank(documents, replies, top_k) ==
    IF documents = <<>> THEN <<>>
    ELSE truncate(sort_desc(rerank_scored(documents, replies)), top_k)

\* set(text.lower().split()) of a text given as its words
Terms(text) ==
    LET LowerWords == [Security |-> "security", DATA |-> "data"]
        \* str.lower() of one word
        LowerWord(w) == IF w \in DOMAIN LowerWords THEN LowerWords[w] ELSE w
    IN {LowerWord(text[i]) : i \in 1..Len(text)}

\* the scoring loop of SimpleReRanker.rerank
simple_rerank_scored(query, documents) ==
    LET query_terms == Terms(query)
        overlap(doc) ==
            IF query_terms # {}
            THEN (1000 * Cardinality(query_terms \cap Terms(doc.page_content)))
                     \div Cardinality(query_terms)
            ELSE 0
    IN [i \in 1..Len(documents) |->
           [doc |-> documents[i].doc,
            score |-> documents[i].score \div 2 + overlap(documents[i].doc) \div 2]]

\* SimpleReRanker.rerank
simple_rerank(query, documents, top_k) ==
    truncate(sort_desc(simple_rerank_scored(query, documents)), top_k)

\* ------------------------------------------------------------------------
\* retrieval/context_enricher.py
\* ------------------------------------------------------------------------
RECURSIVE Flatten(_)
Flatten(seqs) == IF seqs = <<>> THEN <<>> ELSE Head(seqs) \o Flatten(Tail(seqs))

\* ContextEnricher._extract_references before list(set(...)): the matches
\* in the contents, then the stored references, blank ones dropped
extract_reference_set(documents) ==
    LET references ==
            Flatten([i \in 1..Len(documents) |-> documents[i].doc.content_refs])
            \o Flatten([i \in 1..Len(documents) |-> documents[i].doc.references_sections])
    IN {references[i] : i \in 1..Len(references)} \ {""}

\* list(set(...)): the references in any order
Orderings(S) ==
    {o \in [1..Cardinality(S) -> S] : \A i, j \in 1..Cardinality(S) : i # j => o[i] # o[j]}

find_related_section_keeps_all(answer, exclude_ids) ==
    IF answer.raises THEN <<>> ELSE similarity_search(answer.results, None)

\* ContextEnricher._find_related_section on the store's answer for the
\* reference; an exception of the store yields []
find_related_section(answer, exclude_ids) ==
    IF answer.raises THEN <<>>
    ELSE SelectSeq(similarity_search(answer.results, None),
                   LAMBDA r : r.doc.chunk_id \notin exclude_ids)

IdsOf(documents) == {documents[i].doc.chunk_id : i \in 1..Len(documents)}

\* a loop that a failed lookup ends
RECURSIVE enrich_loop_aborts(_, _, _, _, _)
enrich_loop_aborts(refs, answers, i, existing_ids, additional_docs) ==
    IF i > Len(refs) \/ answers[refs[i]].raises THEN additional_docs
    ELSE LET related == find_related_section(answers[refs[i]], existing_ids)
         IN enrich_loop_aborts(refs, answers, i + 1,
                               existing_ids \cup IdsOf(related),
                               additional_docs \o related)

\* the loop of enrich over referenced_sections[:max_additional]
RECURSIVE enrich_loop(_, _, _, _, _)
enrich_loop(refs, answers, i, existing_ids, additional_docs) ==
    IF i > Len(refs) THEN additional_docs
    ELSE LET related == find_related_section(answers[refs[i]], existing_ids)
         IN enrich_loop(refs, answers, i + 1,
                        existing_ids \cup IdsOf(related),
                        additional_docs \o related)

\* ContextEnricher.enrich; referenced_sections is the list _extract_references
\* returned and answers maps a reference to the store's answer for it
enrich(documents, referenced_sections, answers, max_additional) ==
    IF documents = <<>> THEN <<>>
    ELSE LET additional_docs ==
                 enrich_loop(SubSeq(referenced_sections, 1,
                                    Min(max_additional, Len(referenced_sections))),
                             answers, 1, IdsOf(documents), <<>>)
         IN documents \o
            [i \in 1..Len(additional_docs) |->
                [doc |-> additional_docs[i].doc,
                 score |-> (8 * additional_docs[i].score) \div 10]]

\* ------------------------------------------------------------------------
\* RetrievalPipeline.retrieve, stage by stage
\* ------------------------------------------------------------------------
RetrievalInputs ==
    LET RetrievalQueries == {<<"Security">>, <<"security", "budget">>}
        SectionFilters ==
            {None, Some(<<>>), Some(<<"S", "E", "C">>), Some(<<"2", ".">>), Some(<<"x">>)}
        RetrievalProjects == {None, Some("alpha")}
    IN
    {i \in [query : RetrievalQueries, project_name : RetrievalProjects,
            section_filter : SectionFilters, include_enrichment : BOOLEAN,
            use_llm_reranking : BOOLEAN] :
        \* the model-scored re-ranker does not read the words of the query
        i.use_llm_reranking => i.query = <<"Security">>}

Staged(name) == Append(rstages, name)

\* Stage 1 and the test that follows it
retrieve_initial ==
    /\ rpc = "initial_retrieval"
    /\ \E raw \in StoreAnswers(TopK * 2, StoreFilter(rin.project_name)) :
        LET initial_results == initial_retrieval(raw, rin.project_name) IN
        /\ rdocs' = initial_results
        /\ rinfo' = [rinfo EXCEPT !.initial = initial_results]
        /\ IF short_circuits(initial_results)
           THEN /\ rpc' = "done"
                /\ rout' = <<>>
           ELSE /\ rpc' = "apply_filters"
                /\ UNCHANGED rout
    /\ rstages' = Staged("initial_retrieval")
    /\ rcalls' = [rcalls EXCEPT !.store = @ + 1]
    /\ UNCHANGED <<rin, notRt>>

\* Stage 1 when the vector store raises: retrieve raises
retrieve_initial_raises ==
    /\ rpc = "initial_retrieval"
    /\ rpc' = "raised"
    /\ rstages' = Staged("initial_retrieval")
    /\ rcalls' = [rcalls EXCEPT !.store = @ + 1]
    /\ UNCHANGED <<rin, rdocs, rinfo, rout, notRt>>

\* Stage 2
retrieve_filter ==
    /\ rpc = "apply_filters"
    /\ LET filtered_results == apply_filters(rdocs, rin.section_filter) IN
        /\ rdocs' = filtered_results
        /\ rinfo' = [rinfo EXCEPT !.filtered = filtered_results]
    /\ rpc' = "rerank"
    /\ rstages' = Staged("apply_filters")
    /\ UNCHANGED <<rin, rcalls, rout, notRt>>

\* Stage 3 with the model-scored re-ranker: one model call per candidate
retrieve_rerank_llm ==
    /\ rpc = "rerank"
    /\ rin.use_llm_reranking
    /\ \E replies \in [IdsOf(rdocs) -> Replies] :
        LET reranked_results == rerank(rdocs, replies, Some(TopK)) IN
        /\ rdocs' = reranked_results
        /\ rinfo' = [rinfo EXCEPT !.scored = rerank_scored(rdocs, replies),
                                  !.reranked = reranked_results,
                                  !.replies = replies]
    /\ rcalls' = [rcalls EXCEPT !.model = @ + Len(rdocs)]
    /\ rpc' = IF rin.include_enrichment THEN "enrich" ELSE "to_retrieved_chunks"
    /\ rstages' = Staged("rerank")
    /\ UNCHANGED <<rin, rout, notRt>>

\* Stage 3 when a model call raises anything but ValueError or TypeError:
\* _score_document lets it through and retrieve raises
retrieve_rerank_raises ==
    /\ rpc = "rerank"
    /\ rin.use_llm_reranking
    /\ \E failing \in 1..Len(rdocs) :
        rcalls' = [rcalls EXCEPT !.model = @ + failing]
    /\ rpc' = "raised"
    /\ rstages' = Staged("rerank")
    /\ UNCHANGED <<rin, rdocs, rinfo, rout, notRt>>

\* Stage 3 with the lexical re-ranker
retrieve_rerank_simple ==
    /\ rpc = "rerank"
    /\ ~rin.use_llm_reranking
    /\ LET reranked_results == simple_rerank(rin.query, rdocs, Some(TopK)) IN
        /\ rdocs' = reranked_results
        /\ rinfo' = [rinfo EXCEPT !.scored = simple_rerank_scored(rin.query, rdocs),
                                  !.reranked = reranked_results]
    /\ rpc' = IF rin.include_enrichment THEN "enrich" ELSE "to_retrieved_chunks"
    /\ rstages' = Staged("rerank")
    /\ UNCHANGED <<rin, rcalls, rout, notRt>>

\* Stage 4: one secondary search per reference looked up
retrieve_enrich ==
    /\ rpc = "enrich"
    /\ LET refs == extract_reference_set(rdocs) IN
       \E referenced_sections \in Orderings(refs) :
       \E answers \in AnswerMaps(refs) :
        /\ LET enriched_results ==
                   enrich(rdocs, referenced_sections, answers, MaxAdditional)
           IN /\ rdocs' = enriched_results
              /\ rinfo' = [rinfo EXCEPT !.added = Len(enriched_results) - Len(rdocs),
                                        !.refs = referenced_sections,
                                        !.answers = answers]
        /\ rcalls' = [rcalls EXCEPT !.store = @ + Min(MaxAdditional, Len(referenced_sections))]
    /\ rpc' = "to_retrieved_chunks"
    /\ rstages' = Staged("enrich")
    /\ UNCHANGED <<rin, rout, notRt>>

\* the conversion of the result and the return
retrieve_return ==
    /\ rpc = "to_retrieved_chunks"
    /\ rout' = to_retrieved_chunks(rdocs)
    /\ rpc' = "done"
    /\ rstages' = Staged("to_retrieved_chunks")
    /\ UNCHANGED <<rin, rdocs, rcalls, rinfo, notRt>>

RetrievalInit ==
    /\ rin \in RetrievalInputs
    /\ rpc = "initial_retrieval"
    /\ rdocs = <<>>
    /\ rstages = <<>>
    /\ rcalls = [store |-> 0, model |-> 0]
    /\ rinfo = [initial |-> <<>>, filtered |-> <<>>, scored |-> <<>>,
                reranked |-> <<>>, added |-> 0, replies |-> <<>>,
                refs |-> <<>>, answers |-> <<>>]
    /\ rout = <<>>
    /\ OthersIdle("retrieval")

RetrievalNext ==
    \/ retrieve_initial
    \/ retrieve_initial_raises
    \/ retrieve_filter
    \/ retrieve_rerank_llm
    \/ retrieve_rerank_raises
    \/ retrieve_rerank_simple
    \/ retrieve_enrich
    \/ retrieve_return

RetrievalSpec == RetrievalInit /\ [][RetrievalNext]_vars

\* ------------------------------------------------------------------------
\* RetrievalPipeline.retrieve, called twice against one index
\* ------------------------------------------------------------------------
\* stages 1 to 3 of retrieve with the lexical re-ranker, on the store's
\* answer to the first search
reranked_results(args, raw) ==
    LET initial_results == initial_retrieval(raw, args.project_name)
    IN IF short_circuits(initial_results) THEN <<>>
       ELSE simple_rerank(args.query,
                          apply_filters(initial_results, args.section_filter),
                          Some(TopK))

\* retrieve as a whole; referenced_sections is the list that
\* _extract_references makes of the set of references
retrieve(args, raw, referenced_sections, answers) ==
    LET reranked == reranked_results(args, raw)
    IN to_retrieved_chunks(
           IF args.include_enrichment
           THEN enrich(reranked, referenced_sections, answers, MaxAdditional)
           ELSE reranked)

\* one call: the index answers as it did before, and list(set(...)) puts
\* the references in the order of this run of the interpreter
retrieve_call ==
    /\ qpc = "call"
    /\ \E referenced_sections \in
           Orderings(extract_reference_set(reranked_results(qin.args, qin.raw))) :
           qout' = Append(qout, retrieve(qin.args, qin.raw, referenced_sections,
                                         qin.answers))
    /\ qpc' = IF Len(qout) = 1 THEN "done" ELSE "call"
    /\ UNCHANGED <<qin, request, state, pc, trace, templates, outcome, result, rin, rpc,
                   rdocs, rstages, rcalls, rinfo, rout, pin, ppc,
                   pout, ifiles, ipc, iseen, istore, itotal, icall, cin, cpc,
                   cout, uin, upc, uout>>

\* the index state: the candidates and distances of the first search and
\* the answers to the secondary lookups
RepeatInit ==
    /\ \E args \in {i \in RetrievalInputs : ~i.use_llm_reranking} :
       \E raw \in StoreAnswers(TopK * 2, StoreFilter(args.project_name)) :
       \E answers \in AnswerMaps(extract_reference_set(reranked_results(args, raw))) :
           qin = [args |-> args, raw |-> raw, answers |-> answers]
    /\ qpc = "call"
    /\ qout = <<>>
    /\ OthersIdle("repeat")

RepeatNext == retrieve_call

RepeatSpec == RepeatInit /\ [][RepeatNext]_vars

\* ------------------------------------------------------------------------
\* llm/output_parser.py: the texts of the model and what json.loads and
\* the regular expressions make of them
\* ------------------------------------------------------------------------
\* Strings are sequences of pieces (of characters where the characters
\* matter), so "" is <<>>.  A JSON value is tagged with its type: t is
\* "absent" for a key the object does not have.
Absent == [t |-> "absent", s |-> <<>>, n |-> 0]
JNull == [t |-> "null", s |-> <<>>, n |-> 0]
JStr(x) == [t |-> "str", s |-> x, n |-> 0]
JNum(x) == [t |-> "num", s |-> <<>>, n |-> x]

\* Two more tags: "list" is a JSON array, and "text" is the string that is
\* the whole text handed to parse.

\* type(x).__name__ of a JSON value
PyType(t) ==
    CASE t = "obj" -> "dict"
      [] t = "list" -> "list"
      [] t = "num" -> "int"
      [] t = "null" -> "NoneType"
      [] OTHER -> "str"

\* the number pydantic reads from a string given for an int or a float
\* field, None when the string is no number
number_of_text(x) ==
    CASE x = <<"3">> -> Some(3)
      [] x = <<"80">> -> Some(80)
      [] OTHER -> None

MaxItems == 2

\* the keys of priority_map
PriorityWords ==
    [high |-> <<"h", "i", "g", "h">>,
     critical |-> <<"c", "r", "i", "t", "i", "c", "a", "l">>,
     mandatory |-> <<"m", "a", "n", "d", "a", "t", "o", "r", "y">>,
     medium |-> <<"m", "e", "d", "i", "u", "m">>,
     moderate |-> <<"m", "o", "d", "e", "r", "a", "t", "e">>,
     normal |-> <<"n", "o", "r", "m", "a", "l">>,
     low |-> <<"l", "o", "w">>,
     optional |-> <<"o", "p", "t", "i", "o", "n", "a", "l">>,
     nice_to_have |-> <<"n", "i", "c", "e", "-", "t", "o", "-", "h", "a", "v", "e">>]

\* The items of extracted_requirements.  repr is str(item); the keys of an
\* object are requirement_id, title, description, section, page_number and
\* priority (category and related_requirements are never given).
Items ==
    LET Item(t, sv, nv, repr, id, title, description, section, page, priority) ==
            [t |-> t, s |-> sv, n |-> nv, repr |-> repr, requirement_id |-> id,
             title |-> title, description |-> description, section |-> section,
             page_number |-> page, priority |-> priority]
        ItemObject(repr, id, title, description, section, page, priority) ==
            Item("obj", <<>>, 0, repr, id, title, description, section, page, priority)
    IN { \* "Must encrypt data"
         Item("str", <<"Must encrypt data">>, 0, <<"Must encrypt data">>,
              Absent, Absent, Absent, Absent, Absent, Absent),
         \* 42
         Item("num", <<>>, 42, <<"42">>, Absent, Absent, Absent, Absent, Absent, Absent),
         \* {"requirement_id": "R-7", "title": "Encrypt", "description":
         \*  "Encrypt data", "section": "2.1", "page_number": 3,
         \*  "priority": "CRITICAL"}
         ItemObject(<<"{'requirement_id': 'R-7', 'title': 'Encrypt', 'description': 'Encrypt data', 'section': '2.1', 'page_number': 3, 'priority': 'CRITICAL'}">>,
                    JStr(<<"R-7">>), JStr(<<"Encrypt">>), JStr(<<"Encrypt data">>),
                    JStr(<<"2.1">>), JNum(3),
                    JStr(<<"C", "R", "I", "T", "I", "C", "A", "L">>)),
         \* {"description": "Backups daily", "page_number": "3"}
         ItemObject(<<"{'description': 'Backups daily', 'page_number': '3'}">>,
                    Absent, Absent, JStr(<<"Backups daily">>), Absent, JStr(<<"3">>), Absent),
         \* {}
         ItemObject(<<"{}">>, Absent, Absent, Absent, Absent, Absent, Absent),
         \* {"description": "Audit logs", "page_number": "abc"}
         ItemObject(<<"{'description': 'Audit logs', 'page_number': 'abc'}">>,
                    Absent, Absent, JStr(<<"Audit logs">>), Absent, JStr(<<"abc">>), Absent),
         \* {"title": 7, "description": "Audit logs"}
         ItemObject(<<"{'title': 7, 'description': 'Audit logs'}">>,
                    Absent, JNum(7), JStr(<<"Audit logs">>), Absent, Absent, Absent),
         \* {"description": "Audit logs", "section": 4}
         ItemObject(<<"{'description': 'Audit logs', 'section': 4}">>,
                    Absent, Absent, JStr(<<"Audit logs">>), JNum(4), Absent, Absent),
         \* {"title": "Audit", "description": ["Audit", "logs"]}
         ItemObject(<<"{'title': 'Audit', 'description': ['Audit', 'logs']}">>,
                    Absent, JStr(<<"Audit">>), [JNull EXCEPT !.t = "list"], Absent, Absent,
                    Absent),
         \* {"title": "Audit", "description": 5}
         ItemObject(<<"{'title': 'Audit', 'description': 5}">>,
                    Absent, JStr(<<"Audit">>), JNum(5), Absent, Absent, Absent),
         \* {"description": "Audit logs", "priority": 1}
         ItemObject(<<"{'description': 'Audit logs', 'priority': 1}">>,
                    Absent, Absent, JStr(<<"Audit logs">>), Absent, Absent, JNum(1)) }

\* the value of the key extracted_requirements
AbsentList == [t |-> "absent", items |-> <<>>]
JItems(items) == [t |-> "list", items |-> items]

\* a JSON object with the keys parse reads
Object(reqs, reasoning, gaps, confidence, uncertainties) ==
    [t |-> "obj", extracted_requirements |-> reqs, reasoning |-> reasoning,
     gaps_or_conflicts |-> gaps, confidence |-> confidence,
     uncertainties |-> uncertainties]

\* a JSON value that is no object: [1, 2], 42, "text", null
NonObject(t) ==
    [Object(AbsentList, Absent, AbsentList, Absent, AbsentList) EXCEPT !.t = t]

\* the JSON values a model writes: objects with every kind of requirement
\* list, objects with every kind of reasoning, confidence and string
\* list, and values that are no object
ObjectDocs ==
    LET ItemLists == UNION {[1..k -> Items] : k \in 0..MaxItems}
        RequirementValues ==
            {AbsentList, [t |-> "num", items |-> <<>>], [t |-> "null", items |-> <<>>]}
            \cup {JItems(l) : l \in ItemLists}
        \* the value of a key that should hold a list of strings
        StringListValues ==
            {AbsentList, JItems(<<<<"unclear scope">>>>), [t |-> "str", items |-> <<>>]}
        ReasoningValues == {Absent, JStr(<<>>), JStr(<<"ok">>), JNum(5), JNull}
        ConfidenceValues ==
            {Absent, JNum(0), JNum(80), JNum(100), JNum(150), JNum(-5), JStr(<<"80">>),
             JStr(<<"high">>), JNull}
        text_item == CHOOSE item \in Items : item.t = "str"
    IN {Object(r, JStr(<<"ok">>), AbsentList, JNum(80), AbsentList) :
           r \in RequirementValues}
       \cup {d \in {Object(JItems(<<text_item>>), r, g, c, u) :
                       r \in ReasoningValues, c \in ConfidenceValues,
                       g \in StringListValues, u \in StringListValues} :
                d.gaps_or_conflicts = AbsentList \/ d.uncertainties = AbsentList}

NoValue == NonObject("null")

\* A text is the JSON text of a value in one of these forms:
\*   json            the JSON text alone
\*   fenced          prose, then the JSON text in a ```json block
\*   embedded        the JSON text between two sentences of prose
\*   trailing_comma  the JSON text with a comma before its last }
\*   single_quotes   the JSON text written with ' for "
\*   truncated       the JSON text of an object cut before its first }
\*   listed          the JSON text of an object between [ and ]: the JSON
\*                   text of a list that holds the object
\* or one of the texts without a value:
\*   broken    {"reasoning": }      prose   This is not valid JSON at all
\*   reversed  } {                  empty   the empty string
\* The strings of the values hold no quote, colon, brace or comma, and the
\* values that are no object hold no brace.
Text(form, value) == [form |-> form, value |-> value]

Texts ==
    {Text(f, d) : f \in {"json", "fenced", "embedded"},
                  d \in ObjectDocs \cup {NonObject(t) : t \in {"list", "num", "str", "null"}}}
    \cup {Text(f, d) : f \in {"trailing_comma", "single_quotes", "truncated", "listed"},
                       d \in ObjectDocs}
    \cup {Text(f, NoValue) : f \in {"broken", "prose", "reversed", "empty"}}

Loaded(value) == [ok |-> TRUE, value |-> value]
JSONDecodeError == [ok |-> FALSE, value |-> NoValue]

\* json.loads(text)
json_loads(text) ==
    IF text.form = "json" THEN Loaded(text.value)
    ELSE IF text.form = "listed" THEN Loaded(NonObject("list"))
    ELSE JSONDecodeError

HasBraces(text) ==
    \/ text.form \in {"json", "fenced", "embedded"} /\ text.value.t = "obj"
    \/ text.form \in {"trailing_comma", "single_quotes", "broken", "listed"}

\* re.findall of the three patterns, in their order: for every match,
\* whether match.strip() starts with "{" and what json.loads makes of it
pattern_matches(text) ==
    LET whole == [starts_with_brace |-> TRUE, loads |-> Loaded(text.value)]
        invalid == [starts_with_brace |-> TRUE, loads |-> JSONDecodeError]
        tagged == [starts_with_brace |-> FALSE, loads |-> JSONDecodeError]
    IN CASE text.form = "fenced" ->
                \* the block; the block with its language tag; first { to last }
                << [whole EXCEPT !.starts_with_brace = text.value.t = "obj"], tagged >>
                \o (IF HasBraces(text) THEN <<whole>> ELSE <<>>)
         [] text.form \in {"json", "embedded", "listed"} ->
                IF HasBraces(text) THEN <<whole>> ELSE <<>>
         [] text.form \in {"trailing_comma", "single_quotes", "broken"} -> <<invalid>>
         [] OTHER -> <<>>

\* text.find("{") != -1 and text.rfind("}") != -1
has_open_brace(text) == HasBraces(text) \/ text.form \in {"truncated", "reversed"}
has_close_brace(text) == HasBraces(text) \/ text.form = "reversed"

\* json.loads of text[start : end + 1] after the four substitutions
fixed_loads(text) ==
    IF \/ text.form \in {"trailing_comma", "single_quotes", "listed"}
       \/ text.form \in {"json", "fenced", "embedded"} /\ text.value.t = "obj"
    THEN Loaded(text.value)
    ELSE JSONDecodeError

\* ------------------------------------------------------------------------
\* llm/output_parser.py: StructuredOutputParser
\* ------------------------------------------------------------------------
Returned(value) == [raised |-> FALSE, exc |-> "", msg |-> <<>>, value |-> value]
Raised(exc, msg, value) == [raised |-> TRUE, exc |-> exc, msg |-> msg, value |-> value]

\* StructuredOutputParser._fix_and_parse_json
fix_and_parse_json(text) ==
    IF ~has_open_brace(text) \/ ~has_close_brace(text)
    THEN Raised("ValueError", <<"No JSON object found in text">>, NoValue)
    ELSE LET fixed == fixed_loads(text) IN
         IF fixed.ok THEN Returned(fixed.value)
         ELSE Returned(Object(JItems(<<>>), [JNull EXCEPT !.t = "text"], AbsentList, JNum(30),
                         AbsentList))

\* the loops over the patterns and their matches
RECURSIVE first_loaded(_, _)
first_loaded(matches, i) ==
    IF i > Len(matches) THEN JSONDecodeError
    ELSE IF matches[i].starts_with_brace /\ matches[i].loads.ok
         THEN matches[i].loads
         ELSE first_loaded(matches, i + 1)

\* StructuredOutputParser._extract_json
extract_json(text) ==
    LET direct == json_loads(text) IN
    IF direct.ok THEN Returned(direct.value)
    ELSE LET block == first_loaded(pattern_matches(text), 1) IN
         IF block.ok THEN Returned(block.value)
         ELSE fix_and_parse_json(text)

\* str.strip()
RECURSIVE Strip(_)
Strip(s) ==
    LET Whitespace == {" ", "\t", "\n"} IN
    IF s = <<>> THEN s
    ELSE IF Head(s) \in Whitespace THEN Strip(Tail(s))
    ELSE IF s[Len(s)] \in Whitespace THEN Strip(SubSeq(s, 1, Len(s) - 1))
    ELSE s

\* StructuredOutputParser._normalize_priority; an absent key arrives as None
normalize_priority(priority) ==
    LET \* bool(x) of a JSON value
        TruthyValue(v) ==
            CASE v.t \in {"absent", "null"} -> FALSE
              [] v.t = "str" -> v.s # <<>>
              [] v.t = "num" -> v.n # 0
              [] OTHER -> TRUE
        \* priority_map.get(priority_lower, priority_lower)
        priority_map_get(priority_lower) ==
            CASE priority_lower \in {PriorityWords.high, PriorityWords.critical, PriorityWords.mandatory} -> PriorityWords.high
              [] priority_lower \in {PriorityWords.medium, PriorityWords.moderate, PriorityWords.normal} -> PriorityWords.medium
              [] priority_lower \in {PriorityWords.low, PriorityWords.optional, PriorityWords.nice_to_have} -> PriorityWords.low
              [] OTHER -> priority_lower
    IN
    IF ~TruthyValue(priority) THEN Returned(JNull)
    ELSE IF priority.t # "str"
    THEN Raised("AttributeError",
                <<"'", PyType(priority.t), "' object has no attribute 'lower'">>, JNull)
    ELSE Returned(JStr(priority_map_get(Strip(Lower(priority.s)))))

\* dict.get(key, default) on the value found under the key
Get(v, default) == IF v.t = "absent" THEN default ELSE v

\* f"REQ-{idx + 1:03d}"
auto_id(idx) == JStr(<<<<"REQ-001", "REQ-002", "REQ-003", "REQ-004">>[idx + 1]>>)

\* models/responses.py, ExtractedRequirement: the four required strings,
\* page_number: int | None and priority: str | None
requirement_valid(kw) ==
    /\ kw.requirement_id.t = "str"
    /\ kw.title.t = "str"
    /\ kw.description.t = "str"
    /\ kw.section.t = "str"
    /\ \/ kw.page_number.t \in {"absent", "null", "num"}
       \/ kw.page_number.t = "str" /\ number_of_text(kw.page_number.s) # None
    /\ kw.priority.t \in {"null", "str"}

\* the ExtractedRequirement pydantic builds from valid arguments
ExtractedRequirement(kw) ==
    [requirement_id |-> kw.requirement_id.s,
     title |-> kw.title.s,
     description |-> kw.description.s,
     section |-> kw.section.s,
     page_number |->
         CASE kw.page_number.t = "num" -> Some(kw.page_number.n)
           [] kw.page_number.t = "str" -> number_of_text(kw.page_number.s)
           [] OTHER -> None,
     priority |-> IF kw.priority.t = "str" THEN Some(kw.priority.s) ELSE None]

\* the body of the loop of _parse_requirements for the item at index idx:
\* a requirement ("ok"), a ValidationError the loop catches ("invalid"), or
\* another exception, which leaves _parse_requirements ("raised")
build_requirement(idx, req_data) ==
    LET NoRequirement ==
            [requirement_id |-> <<>>, title |-> <<>>, description |-> <<>>,
             section |-> <<>>, page_number |-> None, priority |-> None]
        Built(status, exc, msg, requirement) ==
            [status |-> status, exc |-> exc, msg |-> msg, requirement |-> requirement]
        Validated(kw) ==
            IF requirement_valid(kw)
            THEN Built("ok", "", <<>>, ExtractedRequirement(kw))
            ELSE Built("invalid", "ValidationError", <<>>, NoRequirement)
        \* x[:100] raises TypeError unless x is a string or a list; the
        \* strings of the model are shorter than 100 characters
        Subscriptable(v) == v.t \in {"str", "text", "list"}
    IN
    IF req_data.t = "str"
    THEN Validated([requirement_id |-> auto_id(idx), title |-> JStr(req_data.s),
                    description |-> JStr(req_data.s),
                    section |-> JStr(<<"Extracted from document">>),
                    page_number |-> Absent, priority |-> JNull])
    ELSE IF req_data.t = "obj"
    THEN LET described == Get(req_data.description, JStr(<<"Untitled Requirement">>))
             priority == normalize_priority(req_data.priority)
         IN \* the default of title is computed whether or not title is given
            IF ~Subscriptable(described)
            THEN Built("raised", "TypeError",
                       <<"'", PyType(described.t), "' object is not subscriptable">>,
                       NoRequirement)
            ELSE IF priority.raised
            THEN Built("raised", priority.exc, priority.msg, NoRequirement)
            ELSE Validated([requirement_id |-> Get(req_data.requirement_id, auto_id(idx)),
                            title |-> Get(req_data.title, described),
                            description |-> Get(req_data.description, JStr(req_data.repr)),
                            section |-> Get(req_data.section, JStr(<<"Unknown">>)),
                            page_number |-> req_data.page_number,
                            priority |-> priority.value])
    ELSE Validated([requirement_id |-> auto_id(idx), title |-> JStr(req_data.repr),
                    description |-> JStr(req_data.repr),
                    section |-> JStr(<<"Extracted from document">>),
                    page_number |-> Absent, priority |-> JNull])

RECURSIVE requirements_loop(_, _, _)
requirements_loop(items, i, requirements) ==
    IF i > Len(items) THEN Returned(requirements)
    ELSE LET built == build_requirement(i - 1, items[i]) IN
         IF built.status = "raised" THEN Raised(built.exc, built.msg, <<>>)
         ELSE requirements_loop(items, i + 1,
                                IF built.status = "ok"
                                THEN Append(requirements, built.requirement)
                                ELSE requirements)

\* StructuredOutputParser._parse_requirements
parse_requirements(requirements_data) ==
    IF requirements_data.t = "list"
    THEN requirements_loop(requirements_data.items, 1, <<>>)
    ELSE Raised("TypeError",
                <<"'", PyType(requirements_data.t), "' object is not iterable">>, <<>>)

\* models/responses.py, AnalysisResponse: list[str]
string_list_valid(v) == v.t \in {"absent", "list"}

confidence_valid_unbounded(v) ==
    \/ v.t = "num"
    \/ v.t = "str" /\ number_of_text(v.s) # None

\* confidence: float with ge=0.0 and le=100.0
confidence_valid(v) ==
    \/ v.t = "num" /\ v.n >= 0 /\ v.n <= 100
    \/ v.t = "str" /\ number_of_text(v.s) # None
           /\ number_of_text(v.s)[1] >= 0 /\ number_of_text(v.s)[1] <= 100

\* a string of the response: its own pieces, followed by the text handed to
\* parse when raw is set
Reasoning(pieces, raw) == [pieces |-> pieces, raw |-> raw]

Response(requirements, reasoning, gaps, confidence, uncertainties, query) ==
    [extracted_requirements |-> requirements, reasoning |-> reasoning,
     gaps_or_conflicts |-> gaps, confidence |-> confidence,
     uncertainties |-> uncertainties, query |-> query]

ParseReturned(response) == [raised |-> FALSE, response |-> response]

\* the except branch of parse, with the keyword arguments of the response
\* built there; the texts are shorter than 500 characters
failure_response(msg, query) ==
    IF AnalysisResponseValid({"extracted_requirements", "reasoning", "confidence", "query"})
    THEN ParseReturned(Response(<<>>,
             Reasoning(<<"Failed to parse response: ">> \o msg \o <<". Raw output: ">>, TRUE),
             <<>>, 0, <<>>, query))
    ELSE [raised |-> TRUE,
          response |-> Response(<<>>, Reasoning(<<>>, FALSE), <<>>, 0, <<>>, <<>>)]

\* StructuredOutputParser.parse; the text of a pydantic ValidationError is
\* left out of the message
parse(llm_output, query) ==
    LET extracted == extract_json(llm_output)
        \* the float pydantic makes of the confidence
        confidence_value(v) == IF v.t = "str" THEN number_of_text(v.s)[1] ELSE v.n
    IN
    IF extracted.raised THEN failure_response(extracted.msg, query)
    ELSE LET json_data == extracted.value IN
    IF json_data.t # "obj"
    THEN failure_response(<<"'", PyType(json_data.t), "' object has no attribute 'get'">>, query)
    ELSE LET requirements ==
                 parse_requirements(Get(json_data.extracted_requirements, JItems(<<>>)))
             reasoning == Get(json_data.reasoning, JStr(<<>>))
             confidence == Get(json_data.confidence, JNum(50))
         IN IF requirements.raised THEN failure_response(requirements.msg, query)
            ELSE IF /\ reasoning.t \in {"str", "text"}
                    /\ string_list_valid(json_data.gaps_or_conflicts)
                    /\ confidence_valid(confidence)
                    /\ string_list_valid(json_data.uncertainties)
            THEN ParseReturned(Response(requirements.value,
                     Reasoning(reasoning.s, reasoning.t = "text"),
                     json_data.gaps_or_conflicts.items,
                     confidence_value(confidence),
                     json_data.uncertainties.items, query))
            ELSE failure_response(<<"validation error for AnalysisResponse">>, query)

\* ------------------------------------------------------------------------
\* Calls of the parser
\* ------------------------------------------------------------------------
\* a call of parse with a text and the default query, or a call of
\* _normalize_priority with None or a string a model writes as a priority
ParserInputs ==
    LET PriorityTexts ==
            { <<>>, <<" ">>, <<" ", "\t">>, PriorityWords.high, PriorityWords.medium, PriorityWords.low,
              <<"H", "I", "G", "H">>, <<" ", "H", "i", "g", "h", " ">>,
              <<"C", "R", "I", "T", "I", "C", "A", "L">>, PriorityWords.mandatory,
              <<"M", "o", "d", "e", "r", "a", "t", "e">>, PriorityWords.normal,
              <<"O", "p", "t", "i", "o", "n", "a", "l", "\n">>, PriorityWords.nice_to_have,
              <<"U", "r", "g", "e", "n", "t">>, <<" ", "u", "r", "g", "e", "n", "t">> }
    IN {[op |-> "parse", text |-> t, query |-> <<"Unknown query">>, priority |-> JNull] :
           t \in Texts}
       \cup {[op |-> "normalize_priority", text |-> Text("empty", NoValue),
              query |-> <<>>, priority |-> p] :
                 p \in {JNull} \cup {JStr(w) : w \in PriorityTexts}}

parse_call ==
    /\ ppc = "call"
    /\ pin.op = "parse"
    /\ pout' = <<parse(pin.text, pin.query)>>
    /\ ppc' = "done"
    /\ UNCHANGED <<pin, notPs>>

normalize_call ==
    /\ ppc = "call"
    /\ pin.op = "normalize_priority"
    /\ pout' = <<normalize_priority(pin.priority)>>
    /\ ppc' = "again"
    /\ UNCHANGED <<pin, notPs>>

\* the normalization applied to its own result
normalize_again ==
    /\ ppc = "again"
    /\ ~pout[1].raised
    /\ pout' = Append(pout, normalize_priority(pout[1].value))
    /\ ppc' = "done"
    /\ UNCHANGED <<pin, notPs>>

ParserInit ==
    /\ pin \in ParserInputs
    /\ ppc = "call"
    /\ pout = <<>>
    /\ OthersIdle("parser")

ParserNext ==
    \/ parse_call
    \/ normalize_call
    \/ normalize_again

ParserSpec == ParserInit /\ [][ParserNext]_vars

\* ------------------------------------------------------------------------
\* Ingestion of PDF files (main.py, api/routes.py) and removal of chunks
\* from the collection (vectorstore/chroma_store.py)
\* ------------------------------------------------------------------------
MaxFiles == 3
MaxCalls == 2

\* A PDF file as the loop meets it: the step that raises for it ("load" for
\* PDFLoader.load, "chunk" for chunk_document, "index" for add_chunks, "none"
\* when all three return) and the number of chunks chunk_document makes of
\* it.  add_chunks of no chunks returns before it reaches the store, so it
\* raises only for a file that has chunks.
PdfFiles ==
    {[fails |-> "load", chunks |-> 0], [fails |-> "chunk", chunks |-> 0]}
        \cup {[fails |-> "none", chunks |-> n] : n \in 0..MaxChunks}
        \cup {[fails |-> "index", chunks |-> n] : n \in 1..MaxChunks}

\* the chunk ids of a document: one fresh uuid per chunk, written as the
\* pair of the document and the position of the chunk
chunk_ids(i, n) == [k \in 1..n |-> <<i, k>>]

\* the body of the try block for file i: (read the upload,) load, chunk, add
\* to the store.  Of a call of add_documents that raises, the store keeps the
\* first `kept` documents (how many is up to the store).
process_file(file, i, store, kept) ==
    IF file.fails \in {"read", "load", "chunk"}
    THEN [failed |-> file.fails, store |-> store, added |-> 0]
    ELSE IF file.chunks = 0
    THEN [failed |-> "none", store |-> store, added |-> 0]
    ELSE IF file.fails = "index"
    THEN [failed |-> "index", store |-> store \o chunk_ids(i, kept), added |-> 0]
    ELSE [failed |-> "none", store |-> store \o chunk_ids(i, file.chunks),
          added |-> file.chunks]

\* ingest_documents before its loop: IntelligentChunker() and
\* ChromaVectorStore() are constructed outside the try, so an exception of
\* either (a chunk overlap setting above the chunk size, a persist directory
\* that cannot be made) leaves the call; then the directory is listed
ingest_setup ==
    /\ ipc = "setup"
    /\ ipc' = IF icall[1].setup = "ok" THEN "loop" ELSE "raised"
    /\ icall' = IF icall[1].setup = "ok" THEN icall
                ELSE [icall EXCEPT ![1].pc = "raised", ![1].result =
                         Some(Raised(IF icall[1].setup = "chunker" THEN "ValueError"
                                     ELSE "OSError", <<>>, None))]
    /\ UNCHANGED <<ifiles, iseen, istore, itotal, notIg>>

\* one iteration of a loop without the except clause: the exception of a
\* step leaves the loop and the call
ingest_file_uncaught ==
    /\ ipc = "loop"
    /\ Len(iseen) < Len(ifiles)
    /\ LET i == Len(iseen) + 1
       IN \E kept \in 0..ifiles[i].chunks :
            LET r == process_file(ifiles[i], i, istore, kept)
            IN /\ istore' = r.store
               /\ itotal' = itotal + r.added
               /\ iseen' = Append(iseen, [file |-> i, failed |-> r.failed])
               /\ ipc' = IF r.failed = "none" THEN "loop" ELSE "raised"
    /\ UNCHANGED <<ifiles, icall, notIg>>

\* one iteration of the for loop: the try block for the next file, and the
\* except clause that logs the failure of any step
ingest_file ==
    /\ ipc = "loop"
    /\ Len(iseen) < Len(ifiles)
    /\ LET i == Len(iseen) + 1
       IN \E kept \in 0..ifiles[i].chunks :
            LET r == process_file(ifiles[i], i, istore, kept)
            IN /\ istore' = r.store
               /\ itotal' = itotal + r.added
               /\ iseen' = Append(iseen, [file |-> i, failed |-> r.failed])
    /\ UNCHANGED <<ifiles, ipc, icall, notIg>>

\* the loop is exhausted: the total is logged and the call returns None
ingest_return ==
    /\ ipc = "loop"
    /\ Len(iseen) = Len(ifiles)
    /\ ipc' = "done"
    /\ icall' = [icall EXCEPT ![1].pc = "done", ![1].result = Some(Returned(None))]
    /\ UNCHANGED <<ifiles, iseen, istore, itotal, notIg>>

\* POST /ingest up to its await.  The dependencies are resolved first: the
\* repository's get_pdf_loader calls PDFLoader() without the file_path it
\* requires, a TypeError before the body runs (api/dependencies.py:48-50);
\* with a loader injected in its place the body starts.  A file name that
\* does not end in ".pdf" is refused with status 400 before the try;
\* otherwise the handler is suspended at `await file.read()` and other
\* callbacks of the event loop run.
ingest_document ==
    /\ ipc = "handlers"
    /\ \E c \in 1..Len(icall) :
         /\ icall[c].op = "ingest_document"
         /\ icall[c].pc = "call"
         /\ LET name == Lower(icall[c].filename)
                n == Len(name)
                is_pdf == n >= 4 /\ SubSeq(name, n - 3, n) = <<".", "p", "d", "f">>
            IN icall' = [icall EXCEPT ![c] =
                 IF icall[c].loader = "PDFLoader"
                 THEN [@ EXCEPT !.pc = "raised",
                                !.result = Some(Raised("TypeError", <<>>, None))]
                 ELSE IF ~is_pdf
                 THEN [@ EXCEPT !.pc = "raised",
                                !.result = Some(Raised("HTTPException", <<>>, 400))]
                 ELSE [@ EXCEPT !.pc = "await"]]
    /\ UNCHANGED <<ifiles, ipc, iseen, istore, itotal, notIg>>

\* POST /ingest from its await on.  A request cancelled while suspended is
\* left by the CancelledError thrown at the await, which `except Exception`
\* does not catch, and the collection is untouched.  Otherwise the upload is
\* read, loaded, chunked and added; any exception of these steps becomes an
\* HTTPException with status 500 that leaves the handler.  The document of
\* call c is written c.
ingest_document_resume ==
    /\ ipc = "handlers"
    /\ \E c \in 1..Len(icall) :
         /\ icall[c].pc = "await"
         /\ IF icall[c].cancelled
            THEN /\ icall' = [icall EXCEPT ![c].pc = "raised",
                                ![c].result = Some(Raised("CancelledError", <<>>, None))]
                 /\ UNCHANGED istore
            ELSE \E kept \in 0..icall[c].file.chunks :
                   LET r == process_file(icall[c].file, c, istore, kept)
                   IN /\ istore' = r.store
                      /\ icall' = [icall EXCEPT
                            ![c].pc = IF r.failed = "none" THEN "done" ELSE "raised",
                            ![c].result =
                               IF r.failed = "none"
                               THEN Some(Returned([success |-> TRUE,
                                                   chunks_created |-> r.added]))
                               ELSE Some(Raised("HTTPException", <<>>, 500))]
    /\ UNCHANGED <<ifiles, ipc, iseen, itotal, notIg>>

\* ChromaVectorStore.delete_by_document_id: the chunks of the document are
\* looked up and deleted and True is returned, also when there is none; an
\* exception of the store is logged and False is returned, the collection
\* being as the store left it
delete_by_document_id ==
    /\ ipc = "handlers"
    /\ \E c \in 1..Len(icall) :
         /\ icall[c].op = "delete_by_document_id"
         /\ icall[c].pc = "call"
         /\ LET remaining == SelectSeq(istore, LAMBDA id : id[1] # icall[c].document_id)
            IN IF icall[c].store_raises
               THEN /\ istore' \in {istore, remaining}
                    /\ icall' = [icall EXCEPT ![c].pc = "done",
                                              ![c].result = Some(Returned(FALSE))]
               ELSE /\ istore' = remaining
                    /\ icall' = [icall EXCEPT ![c].pc = "done",
                                              ![c].result = Some(Returned(TRUE))]
    /\ UNCHANGED <<ifiles, ipc, iseen, itotal, notIg>>

\* ChromaVectorStore.clear_collection: the collection is deleted and made
\* anew and True is returned; an exception of delete_collection or of the
\* new Chroma is logged and False is returned
clear_collection ==
    /\ ipc = "handlers"
    /\ \E c \in 1..Len(icall) :
         /\ icall[c].op = "clear_collection"
         /\ icall[c].pc = "call"
         /\ IF icall[c].store_raises
            THEN /\ istore' \in {istore, <<>>}
                 /\ icall' = [icall EXCEPT ![c].pc = "done",
                                           ![c].result = Some(Returned(FALSE))]
            ELSE /\ istore' = <<>>
                 /\ icall' = [icall EXCEPT ![c].pc = "done",
                                           ![c].result = Some(Returned(TRUE))]
    /\ UNCHANGED <<ifiles, ipc, iseen, itotal, notIg>>

\* Either one call of ingest_documents (the command line), or up to MaxCalls
\* calls made by callbacks of the server's event loop, which take their
\* steps in any order.  A single call draws its arguments from the full
\* sets, several calls from the cases that differ in what they do to the
\* collection.  The collection found holds chunks of the documents 0 and
\* -1 that were added before.
IngestInit ==
    LET Call(op, setup, loader, filename, file, cancelled, document_id, store_raises) ==
            [op |-> op, setup |-> setup, loader |-> loader, filename |-> filename,
             file |-> file, cancelled |-> cancelled, document_id |-> document_id,
             store_raises |-> store_raises, pc |-> "call", result |-> None]
        NoFile == [fails |-> "none", chunks |-> 0]
        Pdf == <<"A", ".", "P", "D", "F">>
        FileNames == {Pdf, <<"a", ".", "p", "d", "f">>,
                      <<"a", ".", "t", "x", "t">>, <<"p", "d", "f">>}
        Uploads == PdfFiles \cup {[fails |-> "read", chunks |-> 0]}
        Upload(loader, filename, file, cancelled) ==
            Call("ingest_document", "ok", loader, filename, file, cancelled, 0, FALSE)
        Removals ==
            {Call("delete_by_document_id", "ok", "", <<>>, NoFile, FALSE, d, b) :
                d \in {-1, 0, 1}, b \in BOOLEAN}
            \cup {Call("clear_collection", "ok", "", <<>>, NoFile, FALSE, 0, b) :
                     b \in BOOLEAN}
        SingleCalls ==
            {Upload("injected", f, u, b) : f \in FileNames, u \in Uploads, b \in BOOLEAN}
            \cup {Upload("PDFLoader", Pdf, [fails |-> "load", chunks |-> 0], FALSE)}
            \cup Removals
        SeveralCalls ==
            {Upload("injected", Pdf, [fails |-> "none", chunks |-> MaxChunks], b) :
                b \in BOOLEAN}
            \cup {Upload("injected", Pdf, [fails |-> "index", chunks |-> 1], FALSE),
                  Upload("injected", <<"a", ".", "t", "x", "t">>, NoFile, FALSE)}
            \cup Removals
        Stores == {<<>>, chunk_ids(0, 1), chunk_ids(0, 2),
                   chunk_ids(0, 1) \o chunk_ids(-1, 1),
                   <<<<0, 1>>, <<-1, 1>>, <<0, 2>>>>}
    IN
    /\ icall \in
         {<<Call("ingest_documents", c, "", <<>>, NoFile, FALSE, 0, FALSE)>> :
             c \in {"ok", "chunker", "store"}}
         \cup {<<c>> : c \in SingleCalls}
         \cup UNION {[1..n -> SeveralCalls] : n \in 2..MaxCalls}
    /\ ifiles \in
         IF icall[1].op = "ingest_documents"
         THEN UNION {[1..n -> PdfFiles] : n \in 0..MaxFiles}
         ELSE {<<>>}
    /\ ipc = IF icall[1].op = "ingest_documents" THEN "setup" ELSE "handlers"
    /\ iseen = <<>>
    /\ istore \in IF icall[1].op = "ingest_documents"
                  THEN {<<>>, chunk_ids(0, 1)}
                  ELSE Stores
    /\ itotal = 0
    /\ OthersIdle("ingest")

IngestNext ==
    \/ ingest_setup
    \/ ingest_file
    \/ ingest_return
    \/ ingest_document
    \/ ingest_document_resume
    \/ delete_by_document_id
    \/ clear_collection

IngestSpec == IngestInit /\ [][IngestNext]_vars

\* ------------------------------------------------------------------------
\* chunking/strategies.py
\* ------------------------------------------------------------------------
MaxWords == 2

\* the string p occurs in s at index i
StartsAt(s, i, p) ==
    i + Len(p) - 1 <= Len(s) /\ SubSeq(s, i, i + Len(p) - 1) = p

\* the characters of a string, each with its index
Indexed(s) == [i \in 1..Len(s) |-> [at |-> i, char |-> s[i]]]

\* ChunkingStrategy._clean_text: runs of whitespace become one space, page
\* markers are removed, and the ends are stripped
clean_text(text) ==
    LET Whitespace == {" ", "\t", "\n"}
        Digit == {"0", "1", "2", "3", "4", "5", "6", "7", "8", "9"}
        \* re.sub(r"\s+", " ", text): the first character of a run stays
        StartsRun(p) ==
            p.char \notin Whitespace \/ p.at = 1 \/ text[p.at - 1] \notin Whitespace
        kept == SelectSeq(Indexed(text), StartsRun)
        spaced == [i \in 1..Len(kept) |->
                      IF kept[i].char \in Whitespace THEN " " ELSE kept[i].char]
        RECURSIVE digits_end(_)
        digits_end(j) ==
            IF j <= Len(spaced) /\ spaced[j] \in Digit THEN digits_end(j + 1) ELSE j
        \* the index of the "]" of a match of \[Page \d+\] at i, or 0
        marker_end(i) ==
            IF StartsAt(spaced, i, <<"[", "P", "a", "g", "e", " ">>)
            THEN LET j == digits_end(i + 6)
                 IN IF j > i + 6 /\ j <= Len(spaced) /\ spaced[j] = "]" THEN j ELSE 0
            ELSE 0
        \* re.sub(r"\[Page \d+\]", "", text)
        Outside(p) ==
            ~\E m \in 1..p.at : spaced[m] = "[" /\ marker_end(m) >= p.at
        unmarked == SelectSeq(Indexed(spaced), Outside)
    IN Strip([i \in 1..Len(unmarked) |-> unmarked[i].char])

\* The splitter both strategies construct is RecursiveCharacterTextSplitter
\* with the defaults they leave: a separator is kept at the start of the
\* piece that follows it, pieces are joined without a separator, and a
\* joined chunk is stripped and dropped when empty.  The pieces of a text
\* are consecutive parts of it, so they are written as their bounds: piece
\* i is text[bounds[i] .. bounds[i + 1] - 1].

\* the matches of a separator in the text, left to right without overlap
RECURSIVE separator_matches(_, _, _, _)
separator_matches(text, separator, from, found) ==
    LET later == {i \in from..Len(text) : StartsAt(text, i, separator)}
    IN IF later = {} THEN found
       ELSE LET m == CHOOSE i \in later : \A x \in later : i <= x
            IN separator_matches(text, separator, m + Len(separator), Append(found, m))

\* _merge_splits of the pieces a .. hi: pieces are added to the current
\* chunk until piece e would make it longer than chunk_size; then the chunk
\* is emitted (_join_docs) and pieces leave its front until it is within
\* the overlap and piece e fits
RECURSIVE merge_splits(_, _, _, _, _, _)
merge_splits(text, bounds, a, hi, chunk_size, chunk_overlap) ==
    IF a > hi THEN <<>>
    ELSE LET over == {e \in (a + 1)..hi : bounds[e + 1] - bounds[a] > chunk_size}
             e == IF over = {} THEN hi + 1 ELSE CHOOSE x \in over : \A y \in over : x <= y
             doc == Strip(SubSeq(text, bounds[a], bounds[e] - 1))
             b == CHOOSE x \in a..e :
                      \A y \in a..x :
                          (y < x) <=> \/ bounds[e] - bounds[y] > chunk_overlap
                                      \/ /\ bounds[e + 1] - bounds[y] > chunk_size
                                         /\ bounds[e] - bounds[y] > 0
         IN (IF doc = <<>> THEN <<>> ELSE <<doc>>)
            \o (IF over = {} THEN <<>>
                ELSE merge_splits(text, bounds, b, hi, chunk_size, chunk_overlap))

\* _split_text: the loop over the pieces from piece lo on; runs of pieces
\* shorter than chunk_size are merged, a longer piece is split again with
\* the separators that remain
RECURSIVE split_text(_, _, _, _)
RECURSIVE split_loop(_, _, _, _, _, _)
split_loop(text, bounds, lo, new_separators, chunk_size, chunk_overlap) ==
    LET n == Len(bounds) - 1
        long == {i \in lo..n : bounds[i + 1] - bounds[i] >= chunk_size}
        i == IF long = {} THEN n + 1 ELSE CHOOSE x \in long : \A y \in long : x <= y
        s == SubSeq(text, bounds[i], bounds[i + 1] - 1)
    IN merge_splits(text, bounds, lo, i - 1, chunk_size, chunk_overlap)
       \o (IF long = {} THEN <<>>
           ELSE (IF new_separators = <<>> THEN <<s>>
                 ELSE split_text(s, new_separators, chunk_size, chunk_overlap))
                \o split_loop(text, bounds, i + 1, new_separators, chunk_size,
                              chunk_overlap))

\* RecursiveCharacterTextSplitter.split_text: the first separator that is
\* "" or occurs in the text cuts it (_split_text_with_regex: before each
\* match, or into characters for "", without the empty pieces)
split_text(text, separators, chunk_size, chunk_overlap) ==
    LET found == {i \in 1..Len(separators) :
                     separators[i] = <<>> \/ Contains(text, separators[i])}
        k == IF found = {} THEN Len(separators)
             ELSE CHOOSE x \in found : \A y \in found : x <= y
        separator == separators[k]
        new_separators ==
            IF found = {} \/ separator = <<>> THEN <<>>
            ELSE SubSeq(separators, k + 1, Len(separators))
        cuts == separator_matches(text, separator, 1, <<>>)
        bounds ==
            IF text = <<>> THEN <<1>>
            ELSE IF separator = <<>> THEN [i \in 1..(Len(text) + 1) |-> i]
            ELSE (IF cuts # <<>> /\ cuts[1] = 1 THEN <<>> ELSE <<1>>)
                 \o cuts \o <<Len(text) + 1>>
    IN split_loop(text, bounds, 1, new_separators, chunk_size, chunk_overlap)

\* a chunk dictionary: the content and the section metadata, if any
ChunkOf(content, section) == [content |-> content, section |-> section]

\* RecursiveChunkingStrategy.split
recursive_split(text, chunk_size, chunk_overlap) ==
    LET SEPARATORS == << <<"\n", "\n", "\n">>, <<"\n", "\n">>, <<"\n">>,
                         <<".", " ">>, <<",", " ">>, <<" ">>, <<>> >>
        docs == split_text(clean_text(text), SEPARATORS, chunk_size, chunk_overlap)
    IN [i \in 1..Len(docs) |-> ChunkOf(docs[i], None)]

\* HierarchicalChunkingStrategy._fallback_splitter.create_documents: the
\* splitter with its default separators
fallback_create_documents(text, section, chunk_size, chunk_overlap) ==
    LET docs == split_text(text, << <<"\n", "\n">>, <<"\n">>, <<" ">>, <<>> >>,
                           chunk_size, chunk_overlap)
    IN [i \in 1..Len(docs) |-> ChunkOf(docs[i], section)]

\* HierarchicalChunkingStrategy._match_section: Some(number and title) when
\* the stripped line starts like a section header, else None
match_section(raw_line) ==
    LET line == Strip(raw_line)
        Whitespace == {" ", "\t", "\n"}
        Digit == {"0", "1", "2", "3", "4", "5", "6", "7", "8", "9"}
        Upper == {"A", "B", "C", "D", "E", "F", "G", "H", "I", "J", "K", "L", "M",
                  "N", "O", "P", "Q", "R", "S", "T", "U", "V", "W", "X", "Y", "Z"}
        RECURSIVE skip(_, _)
        skip(j, class) ==
            IF j <= Len(line) /\ line[j] \in class THEN skip(j + 1, class) ELSE j
        \* the index after the longest \d+(?:\.\d+)* at i; i when none
        RECURSIVE number_end(_)
        number_end(i) ==
            LET j == skip(i, Digit)
            IN IF j = i THEN i
               ELSE IF j <= Len(line) /\ line[j] = "." /\ skip(j + 1, Digit) > j + 1
               THEN number_end(j + 1)
               ELSE j
        Found(i, j) == Some([number |-> SubSeq(line, i, j - 1), title |-> line])
        Keyword(words) == {w \in words : StartsAt(line, 1, w)}
        Sections == Keyword({<<"S", "E", "C", "T", "I", "O", "N">>,
                             <<"S", "e", "c", "t", "i", "o", "n">>,
                             <<"C", "H", "A", "P", "T", "E", "R">>,
                             <<"C", "h", "a", "p", "t", "e", "r">>})
        Articles == Keyword({<<"A", "R", "T", "I", "C", "L", "E">>,
                             <<"A", "r", "t", "i", "c", "l", "e">>})
        after_section == skip(8, Whitespace)
        after_number == number_end(1)
        after_article == skip(8, Whitespace)
    IN IF Sections # {} /\ number_end(after_section) > after_section
       THEN Found(after_section, number_end(after_section))
       ELSE IF after_number > 1 /\ skip(after_number, Whitespace) > after_number
               /\ skip(after_number, Whitespace) <= Len(line)
               /\ line[skip(after_number, Whitespace)] \in Upper
       THEN Found(1, after_number)
       ELSE IF Articles # {} /\ after_article > 8 /\ skip(after_article, Digit) > after_article
       THEN Found(after_article, skip(after_article, Digit))
       ELSE None

\* HierarchicalChunkingStrategy._identify_sections: the lines of the text
\* grouped under the header lines; a section is kept when it has lines
identify_sections(text) ==
    LET \* text.split("\n")
        IsNewline(p) == p.char = "\n"
        newlines == SelectSeq(Indexed(text), IsNewline)
        n == Len(newlines)
        lines == [j \in 1..(n + 1) |->
                     SubSeq(text,
                            IF j = 1 THEN 1 ELSE newlines[j - 1].at + 1,
                            IF j = n + 1 THEN Len(text) ELSE newlines[j].at - 1)]
        \* " ".join(content)
        RECURSIVE join(_)
        join(content) ==
            IF Len(content) = 1 THEN content[1]
            ELSE content[1] \o <<" ">> \o join(Tail(content))
        Closed(section) == [section EXCEPT !.content = join(section.content)]
        RECURSIVE scan(_, _, _)
        scan(i, current_section, sections) ==
            IF i > Len(lines)
            THEN IF current_section.content # <<>>
                 THEN Append(sections, Closed(current_section))
                 ELSE sections
            ELSE LET section_match == match_section(lines[i])
                 IN IF section_match # None
                    THEN scan(i + 1,
                              [title |-> section_match[1].title,
                               number |-> section_match[1].number,
                               content |-> <<>>],
                              IF current_section.content # <<>>
                              THEN Append(sections, Closed(current_section))
                              ELSE sections)
                    ELSE scan(i + 1,
                              [current_section EXCEPT
                                   !.content = Append(@, lines[i])],
                              sections)
    IN scan(1, [title |-> <<"I", "n", "t", "r", "o", "d", "u", "c", "t", "i", "o", "n">>,
                number |-> <<"0">>, content |-> <<>>], <<>>)

\* a section body is emitted whole whatever its length
chunk_section_emits_whole(section, chunk_size, chunk_overlap) ==
    IF Len(section.content) < 50 THEN <<>>
    ELSE <<ChunkOf(section.content,
                   Some([title |-> section.title, number |-> section.number]))>>

\* HierarchicalChunkingStrategy._chunk_section
chunk_section(section, chunk_size, chunk_overlap) ==
    LET section_metadata == Some([title |-> section.title, number |-> section.number])
    IN IF Len(section.content) < 50 THEN <<>>
       ELSE IF Len(section.content) <= chunk_size
       THEN <<ChunkOf(section.content, section_metadata)>>
       ELSE fallback_create_documents(section.content, section_metadata,
                                      chunk_size, chunk_overlap)

\* HierarchicalChunkingStrategy.split
hierarchical_split(text, chunk_size, chunk_overlap) ==
    LET cleaned_text == clean_text(text)
        sections == identify_sections(cleaned_text)
    IN IF sections = <<>>
       THEN fallback_create_documents(cleaned_text, None, chunk_size, chunk_overlap)
       ELSE Flatten([i \in 1..Len(sections) |->
                        chunk_section(sections[i], chunk_size, chunk_overlap)])

\* ------------------------------------------------------------------------
\* Calls of the chunking strategies
\* ------------------------------------------------------------------------
\* For split: a strategy constructed with a chunk size and an overlap not
\* above it.  For chunk_document: the chunk_size and chunk_overlap handed to
\* IntelligentChunker (None when left out) and those of the settings, the
\* defaults or the least chunk size with no overlap; the strategy's sizes
\* are set when the chunker is constructed.  The text has up to MaxWords
\* words: short, medium and long runs of a letter, a section header and a
\* page marker, put together with the separators
ChunkInputs ==
    LET Run(c, n) == [i \in 1..n |-> c]
        Words == {Run("a", 4), Run("b", 27), Run("c", 40),
                  <<"S", "e", "c", "t", "i", "o", "n", " ", "2">>,
                  <<"2", ".", "1", " ", "T", "e", "r", "m", "s">>,
                  <<"[", "P", "a", "g", "e", " ", "1", "2", "]">>}
        Separators == {<<" ">>, <<".", " ">>, <<"\n", " ", "\n">>}
        RECURSIVE TextsOf(_)
        TextsOf(n) ==
            IF n = 0 THEN {<<>>}
            ELSE IF n = 1 THEN Words
            ELSE {t \o s \o w : t \in TextsOf(n - 1), s \in Separators, w \in Words}
        Sizes == {<<60, 0>>, <<60, 8>>, <<20, 8>>, <<20, 20>>}
        Given == {<<Some(60), None>>, <<Some(60), Some(0)>>, <<Some(60), Some(8)>>,
                  <<Some(20), Some(8)>>, <<Some(20), Some(20)>>, <<None, None>>,
                  <<Some(0), Some(8)>>}
        Settings == {[chunk_size |-> 1000, chunk_overlap |-> 200],
                     [chunk_size |-> 100, chunk_overlap |-> 0]}
        AllTexts == UNION {TextsOf(n) : n \in 0..MaxWords}
    IN {[op |-> "split", strategy |-> h, text |-> t,
         given |-> None, settings |-> None,
         chunk_size |-> z[1], chunk_overlap |-> z[2]] :
           h \in {"hierarchical", "recursive"}, t \in AllTexts, z \in Sizes}
       \cup
       {[op |-> "chunk_document", strategy |-> h, text |-> t,
         given |-> [chunk_size |-> g[1], chunk_overlap |-> g[2]], settings |-> e,
         chunk_size |-> None, chunk_overlap |-> None] :
           h \in {"hierarchical", "recursive"}, t \in AllTexts,
           g \in Given, e \in Settings}

\* IntelligentChunker._extract_page_numbers: the numbers of the [Page N]
\* markers in the content, as the set the list is made of
extract_page_numbers(content) ==
    LET Digit == {"0", "1", "2", "3", "4", "5", "6", "7", "8", "9"}
        DigitValue == ("0" :> 0) @@ ("1" :> 1) @@ ("2" :> 2) @@ ("3" :> 3) @@ ("4" :> 4)
                      @@ ("5" :> 5) @@ ("6" :> 6) @@ ("7" :> 7) @@ ("8" :> 8) @@ ("9" :> 9)
        \* the index after the digits that start at j
        RECURSIVE digits_end(_)
        digits_end(j) ==
            IF j <= Len(content) /\ content[j] \in Digit THEN digits_end(j + 1) ELSE j
        \* int(m)
        RECURSIVE int(_, _, _)
        int(j, end, n) == IF j = end THEN n ELSE int(j + 1, end, 10 * n + DigitValue[content[j]])
        matches ==
            {i \in 1..Len(content) :
                /\ StartsAt(content, i, <<"[", "P", "a", "g", "e", " ">>)
                /\ digits_end(i + 6) > i + 6
                /\ digits_end(i + 6) <= Len(content)
                /\ content[digits_end(i + 6)] = "]"}
    IN {int(i + 6, digits_end(i + 6), 0) : i \in matches}

\* IntelligentChunker.__init__: an argument that is None or 0 is replaced by
\* the setting, and the strategy is constructed with the two sizes; the
\* splitter the strategy constructs raises ValueError for an overlap above
\* the chunk size
chunker_init ==
    /\ cpc = "new"
    /\ LET \* x or y
           Or(x, y) == IF x = None \/ x = Some(0) THEN y ELSE x[1]
           chunk_size == Or(cin.given.chunk_size, cin.settings.chunk_size)
           chunk_overlap == Or(cin.given.chunk_overlap, cin.settings.chunk_overlap)
       IN /\ cin' = [cin EXCEPT !.chunk_size = chunk_size,
                                !.chunk_overlap = chunk_overlap]
          /\ cpc' = IF chunk_overlap > chunk_size THEN "raised" ELSE "call"
    /\ UNCHANGED <<cout, notCk>>

\* a strategy splits a text
strategy_split ==
    /\ cpc = "call"
    /\ cin.op = "split"
    /\ cout' = IF cin.strategy = "hierarchical"
               THEN hierarchical_split(cin.text, cin.chunk_size, cin.chunk_overlap)
               ELSE recursive_split(cin.text, cin.chunk_size, cin.chunk_overlap)
    /\ cpc' = "done"
    /\ UNCHANGED <<cin, notCk>>

\* IntelligentChunker.chunk_document: the strategy the chunker holds splits
\* the raw content and _enhance_chunk adds the page numbers of every chunk
chunk_document ==
    /\ cpc = "call"
    /\ cin.op = "chunk_document"
    /\ \E raw_chunks \in
               {IF cin.strategy = "hierarchical"
                THEN hierarchical_split(cin.text, cin.chunk_size, cin.chunk_overlap)
                ELSE recursive_split(cin.text, cin.chunk_size, cin.chunk_overlap)} :
           cout' = [idx \in 1..Len(raw_chunks) |->
                       [content |-> raw_chunks[idx].content,
                        section |-> raw_chunks[idx].section,
                        chunk_index |-> idx - 1,
                        page_numbers |-> extract_page_numbers(raw_chunks[idx].content)]]
    /\ cpc' = "done"
    /\ UNCHANGED <<cin, notCk>>

ChunkInit ==
    /\ cin \in ChunkInputs
    /\ cpc = IF cin.op = "chunk_document" THEN "new" ELSE "call"
    /\ cout = <<>>
    /\ OthersIdle("chunking")

ChunkNext ==
    \/ chunker_init
    \/ strategy_split
    \/ chunk_document

ChunkSpec == ChunkInit /\ [][ChunkNext]_vars

\* ------------------------------------------------------------------------
\* ReRanker.batch_rerank
\* ------------------------------------------------------------------------
MaxCandidates == 4

\* the batches are re-ranked and joined, without a sort of the whole
RECURSIVE batch_rerank_unsorted(_, _, _)
batch_rerank_unsorted(documents, replies, batch_size) ==
    IF Len(documents) <= batch_size THEN rerank(documents, replies, None)
    ELSE rerank(SubSeq(documents, 1, batch_size), replies, None)
         \o batch_rerank_unsorted(SubSeq(documents, batch_size + 1, Len(documents)),
                                  replies, batch_size)

\* ReRanker.batch_rerank, for a batch size of at least 1
batch_rerank(documents, replies, batch_size) ==
    LET \* the loop over range(0, len(documents), batch_size): all_reranked
        \* after the batches from index i (0-based) on were added
        RECURSIVE batches_from(_)
        batches_from(i) ==
            IF i >= Len(documents) THEN <<>>
            ELSE rerank(SubSeq(documents, i + 1, Min(i + batch_size, Len(documents))),
                        replies, None)
                 \o batches_from(i + batch_size)
    IN IF Len(documents) <= batch_size THEN rerank(documents, replies, None)
       ELSE sort_desc(batches_from(0))

\* ------------------------------------------------------------------------
\* Page numbers: written by add_chunks, read by _to_retrieved_chunks
\* ------------------------------------------------------------------------
MaxPages == 3

\* the list is written as its repr
prepare_metadata_as_repr(value) ==
    LET \* str(v) of an int that is not negative
        RECURSIVE str_int(_)
        str_int(v) ==
            LET digit == <<"0", "1", "2", "3", "4", "5", "6", "7", "8", "9">>[(v % 10) + 1]
            IN IF v < 10 THEN <<digit>> ELSE Append(str_int(v \div 10), digit)
        RECURSIVE joined(_)
        joined(i) ==
            IF i > Len(value) THEN <<>>
            ELSE (IF i > 1 THEN <<",", " ">> ELSE <<>>) \o str_int(value[i]) \o joined(i + 1)
    IN <<"[">> \o joined(1) \o <<"]">>

\* ChromaVectorStore._prepare_metadata on a list of ints: "" for the empty
\* list, else ",".join(str(v) for v in value)
prepare_metadata(value) ==
    LET \* str(v) of an int that is not negative
        RECURSIVE str_int(_)
        str_int(v) ==
            LET digit == <<"0", "1", "2", "3", "4", "5", "6", "7", "8", "9">>[(v % 10) + 1]
            IN IF v < 10 THEN <<digit>> ELSE Append(str_int(v \div 10), digit)
        RECURSIVE joined(_)
        joined(i) ==
            IF i > Len(value) THEN <<>>
            ELSE (IF i > 1 THEN <<",">> ELSE <<>>) \o str_int(value[i]) \o joined(i + 1)
    IN IF value # <<>> THEN joined(1) ELSE <<>>

\* the page numbers _to_retrieved_chunks reads from the stored string:
\* [int(p) for p in str(page_numbers_str).split(",") if p], and the empty
\* list when the string is empty or int() raises ValueError
read_page_numbers(page_numbers_str) ==
    LET IsComma(c) == c.char = ","
        commas == SelectSeq(Indexed(page_numbers_str), IsComma)
        n == Len(commas)
        pieces == [j \in 1..(n + 1) |->
                      SubSeq(page_numbers_str,
                             IF j = 1 THEN 1 ELSE commas[j - 1].at + 1,
                             IF j = n + 1 THEN Len(page_numbers_str) ELSE commas[j].at - 1)]
        NonEmpty(piece) == piece # <<>>
        kept == SelectSeq(pieces, NonEmpty)
        \* int(p) of a string: Some(n), or None for a ValueError.  int() skips
        \* surrounding whitespace and reads an optional sign and decimal digits
        int_of(p) ==
            LET Digit == {"0", "1", "2", "3", "4", "5", "6", "7", "8", "9"}
                DigitValue == ("0" :> 0) @@ ("1" :> 1) @@ ("2" :> 2) @@ ("3" :> 3) @@ ("4" :> 4)
                              @@ ("5" :> 5) @@ ("6" :> 6) @@ ("7" :> 7) @@ ("8" :> 8) @@ ("9" :> 9)
                stripped == Strip(p)
                signed == stripped # <<>> /\ stripped[1] \in {"+", "-"}
                digits == IF signed THEN Tail(stripped) ELSE stripped
                RECURSIVE value(_, _)
                value(i, acc) ==
                    IF i > Len(digits) THEN acc
                    ELSE value(i + 1, 10 * acc + DigitValue[digits[i]])
            IN IF digits # <<>> /\ \A i \in 1..Len(digits) : digits[i] \in Digit
               THEN Some(IF signed /\ stripped[1] = "-" THEN 0 - value(1, 0) ELSE value(1, 0))
               ELSE None
    IN IF page_numbers_str = <<>> THEN Returned(<<>>)
       ELSE IF \E j \in 1..Len(kept) : int_of(kept[j]) = None
       THEN Returned(<<>>)
       ELSE Returned([j \in 1..Len(kept) |-> int_of(kept[j])[1]])

\* ------------------------------------------------------------------------
\* Calls of the single operations
\* ------------------------------------------------------------------------
\* a call of batch_rerank with up to MaxCandidates candidates, the model's
\* reply for each and a batch size; a call of add_chunks with the page
\* numbers of a chunk, read back by _to_retrieved_chunks; a stored value
\* that another writer left in the collection, read by _to_retrieved_chunks
CallInputs ==
    LET Scores == {200, 500}
        Candidates(n) ==
            {[i \in 1..n |-> [doc |-> Corpus[i], score |-> scores[i]]] :
                scores \in [1..n -> Scores]}
        BatchReplies == {r \in Replies : r.kind = "text" \/ r.value <= 100}
        BatchSizes == {1, 2, 3, 5}
        PageValues == {0, 1, 7, 12, 305}
        StoredValues ==
            { <<"1", ",", "x">>, <<"a", "b", "c">>, <<"1", ".", "5">>, <<",">>,
              <<"1", ",", ",", "2">>, <<" ", "3", " ", ",", " ", "4">>, <<"-", "2">>,
              <<"[", "1", ",", " ", "2", "]">>, <<"1", "2">> }
        Call(op, documents, replies, batch_size, page_numbers, stored) ==
            [op |-> op, documents |-> documents, replies |-> replies,
             batch_size |-> batch_size, page_numbers |-> page_numbers, stored |-> stored]
    IN {Call("batch_rerank", d, r, b, <<>>, <<>>) :
           d \in UNION {Candidates(n) : n \in 0..MaxCandidates},
           r \in [1..MaxCandidates -> BatchReplies], b \in BatchSizes}
       \cup {Call("add_chunks", <<>>, <<>>, 0, l, <<>>) :
                l \in UNION {[1..n -> PageValues] : n \in 0..MaxPages}}
       \cup {Call("stored", <<>>, <<>>, 0, <<>>, v) : v \in StoredValues}

batch_rerank_call ==
    /\ upc = "call"
    /\ uin.op = "batch_rerank"
    /\ uout' = <<batch_rerank(uin.documents, uin.replies, uin.batch_size)>>
    /\ upc' = "done"
    /\ UNCHANGED <<uin, notCl>>

\* ChromaVectorStore.add_chunks: the metadata of the chunk is flattened
add_chunks_call ==
    /\ upc = "call"
    /\ uin.op = "add_chunks"
    /\ uout' = <<prepare_metadata(uin.page_numbers)>>
    /\ upc' = "stored"
    /\ UNCHANGED <<uin, notCl>>

\* RetrievalPipeline._to_retrieved_chunks on the stored chunk
to_retrieved_chunks_call ==
    /\ upc = "stored"
    /\ uout' = Append(uout, read_page_numbers(uout[1]))
    /\ upc' = "done"
    /\ UNCHANGED <<uin, notCl>>

CallInit ==
    /\ uin \in CallInputs
    /\ upc = IF uin.op = "stored" THEN "stored" ELSE "call"
    /\ uout = IF uin.op = "stored" THEN <<uin.stored>> ELSE <<>>
    /\ OthersIdle("calls")

CallNext ==
    \/ batch_rerank_call
    \/ add_chunks_call
    \/ to_retrieved_chunks_call

CallSpec == CallInit /\ [][CallNext]_vars

\* ------------------------------------------------------------------------
\* Properties of the workflow
\* ------------------------------------------------------------------------
LastNode == IF trace = <<>> THEN "none" ELSE trace[Len(trace)].node
LastRaised == trace # <<>> /\ trace[Len(trace)].raised
SomeStageRaised == \E i \in 1..Len(trace) : trace[i].raised
StageNodes == {"process_query", "retrieve_documents", "analyze_content"}
StageOrder(n) ==
    CASE n = "process_query" -> 1
      [] n = "retrieve_documents" -> 2
      [] n = "analyze_content" -> 3
      [] OTHER -> 4

\* C1: run never raises and always returns a non-null AnalysisResponse:
\* when run is over, the final graph state holds an analysis_response, so
\* the fallback of run is not taken, and run returned that response.
C1_RunAlwaysReturns ==
    pc = "done" =>
        /\ state.analysis_response # None
        /\ outcome = "returned"
        /\ result = state.analysis_response

\* C2: a run in which some stage recorded an error returns the error
\* result: no requirements, confidence 0, a reasoning that carries the
\* recorded message, exactly the fixed uncertainty note, and the query of
\* the request.
C2_ErrorRunYieldsErrorResult ==
    (pc = "done" /\ SomeStageRaised) =>
        /\ outcome = "returned"
        /\ result # None
        /\ result[1].extracted_requirements = <<>>
        /\ result[1].confidence = 0
        /\ result[1].reasoning = <<ErrorPrefix, state.error[1]>>
        /\ result[1].uncertainties = <<ErrorNote>>
        /\ result[1].query = request.query

\* C3: the stages run in the order process_query, retrieve_documents,
\* analyze_content, each at most once; a stage runs only when no earlier
\* stage raised; handle_error runs exactly when a stage raised, directly
\* after it; nothing runs after handle_error.
C3_StageOrderAndErrorRouting ==
    /\ \A i, j \in 1..Len(trace) :
          (i < j /\ trace[j].node \in StageNodes) =>
              /\ trace[i].node \in StageNodes
              /\ StageOrder(trace[i].node) < StageOrder(trace[j].node)
              /\ ~trace[i].raised
    /\ \A i \in 1..Len(trace) :
          trace[i].raised =>
              IF i = Len(trace) THEN pc = "handle_error"
              ELSE trace[i + 1].node = "handle_error"
    /\ \A j \in 1..Len(trace) :
          trace[j].node = "handle_error" =>
              /\ j > 1 /\ trace[j - 1].raised
              /\ j = Len(trace)
              /\ pc \in {"END", "done"}
    /\ pc = "handle_error" => LastRaised

\* C4: when retrieve_documents completed without an exception, the next
\* node is analyze_content, whatever the number of retrieved chunks.
C4_RetrievalProceedsToAnalysis ==
    (LastNode = "retrieve_documents" /\ ~LastRaised) => pc = "analyze_content"

\* C4 witness: retrieval returned no chunk and analysis is the next node
C4_Witness ==
    /\ LastNode = "retrieve_documents"
    /\ ~LastRaised
    /\ state.retrieved_chunks = <<>>
    /\ state.current_step = "documents_retrieved"
    /\ pc = "analyze_content"

\* C5: every run terminates and executes at most four nodes, and it ends
\* either in the end state after an analysis that completed (the last node
\* is analyze_content, it did not raise and the step is analysis_complete)
\* or after the error handler.
C5_RunTerminates ==
    /\ [](Len(trace) <= 4)
    /\ [](pc \in {"END", "done"} =>
             \/ /\ LastNode = "analyze_content"
                /\ ~LastRaised
                /\ state.current_step = "analysis_complete"
             \/ LastNode = "handle_error")
    /\ <>(pc = "done")

\* ------------------------------------------------------------------------
\* Properties of the retrieval pipeline
\* ------------------------------------------------------------------------
StageRan(name) == \E i \in 1..Len(rstages) : rstages[i] = name

\* C6: the list retrieve returns is in non-increasing order of
\* relevance_score, with enrichment on or off.
C6_ResultSortedByScore ==
    rpc = "done" =>
        \A i, j \in 1..Len(rout) :
            i < j => rout[i].relevance_score >= rout[j].relevance_score

\* C7: the list retrieve returns has at most top_k elements, with
\* enrichment on or off.
C7_ResultCappedAtTopK == rpc = "done" => Len(rout) <= TopK

\* C8: when the initial search yields no candidate, retrieve returns the
\* empty list and no later stage is invoked: no filter, no re-ranking (no
\* model call), no enrichment (no secondary search).
C8_EmptySearchShortCircuits ==
    (StageRan("initial_retrieval") /\ rpc # "raised" /\ rinfo.initial = <<>>) =>
        /\ rpc = "done"
        /\ rout = <<>>
        /\ rstages = <<"initial_retrieval">>
        /\ rcalls = [store |-> 1, model |-> 0]

\* C8 witness: a call with model re-ranking and enrichment requested whose
\* initial search found nothing has returned after stage 1
C8_Witness ==
    /\ rpc = "done"
    /\ rin.use_llm_reranking
    /\ rin.include_enrichment
    /\ rinfo.initial = <<>>
    /\ rstages = <<"initial_retrieval">>
    /\ rout = <<>>

\* a case-insensitive occurrence of needle in hay, character by character
OccursIgnoringCase(hay, needle) ==
    \E off \in 0..(Len(hay) - Len(needle)) :
        \A j \in 1..Len(needle) : LowerChar(hay[off + j]) = LowerChar(needle[j])

InSection(candidate, f) ==
    \/ OccursIgnoringCase(candidate.doc.section_title, f)
    \/ OccursIgnoringCase(candidate.doc.section_hierarchy, f)

\* C9: with a non-empty section filter, _apply_filters returns exactly the
\* candidates whose section title or stored hierarchy string contains the
\* filter case-insensitively, in their order and with their scores, when
\* one matches; the whole candidate list when none matches; never the
\* empty list.
C9_SectionFilter ==
    (StageRan("apply_filters") /\ rin.section_filter # None /\ rin.section_filter[1] # <<>>) =>
        LET f == rin.section_filter[1]
            matching == SelectSeq(rinfo.initial, LAMBDA c : InSection(c, f))
        IN /\ matching # <<>> => rinfo.filtered = matching
           /\ matching = <<>> => rinfo.filtered = rinfo.initial
           /\ rinfo.filtered # <<>>

\* C9 witness: the filter "SEC" kept the chunk titled "Sec" and dropped
\* another candidate
C9_Witness ==
    /\ StageRan("apply_filters")
    /\ rin.section_filter = Some(<<"S", "E", "C">>)
    /\ Len(rinfo.filtered) < Len(rinfo.initial)
    /\ \E i \in 1..Len(rinfo.filtered) : rinfo.filtered[i].doc.chunk_id = 1

\* C10: enrich adds at most max_additional chunks in total, over all
\* references together.
C10_AtMostMaxAdditional == StageRan("enrich") => rinfo.added <= MaxAdditional

\* C11: the output of enrich is its input list, unchanged in membership,
\* order and scores, followed by the added chunks, and no chunk id occurs
\* twice in the output: no added chunk repeats an input chunk or another
\* added chunk.
C11_EnrichAppendsDistinct ==
    StageRan("enrich") =>
        /\ Len(rdocs) = Len(rinfo.reranked) + rinfo.added
        /\ SubSeq(rdocs, 1, Len(rinfo.reranked)) = rinfo.reranked
        /\ \A i, j \in 1..Len(rdocs) :
              i < j => rdocs[i].doc.chunk_id # rdocs[j].doc.chunk_id

\* C11 witness: the input was chunk 1 alone, the search for its reference
\* "4" answered chunks 1 and 4, and only chunk 4 was added
C11_Witness ==
    /\ StageRan("enrich")
    /\ Len(rinfo.reranked) = 1
    /\ [i \in 1..Len(rdocs) |-> rdocs[i].doc.chunk_id] = <<1, 4>>
    /\ rdocs[2].score = (8 * Similarity(4)) \div 10

\* the position of a scored candidate in the list handed to the re-ranker
PositionIn(seq, c) == CHOOSE i \in 1..Len(seq) : seq[i] = c

RangeOf(seq) == {seq[i] : i \in 1..Len(seq)}

\* C12: both re-rankers return the candidates in non-increasing final
\* score, equal scores in their input order, cut to the first top_k of that
\* order; every returned candidate is one of the input candidates.
C12_RerankSortedStableTruncated ==
    (StageRan("rerank") /\ rpc # "raised") =>
        LET inp == rinfo.scored
            out == rinfo.reranked
            Before(a, b) ==
                \/ a.score > b.score
                \/ a.score = b.score /\ PositionIn(inp, a) < PositionIn(inp, b)
        IN /\ Len(out) = Min(TopK, Len(rinfo.filtered))
           /\ \A i \in 1..Len(out) :
                 /\ out[i] \in RangeOf(inp)
                 /\ out[i].doc \in {c.doc : c \in RangeOf(rinfo.filtered)}
           /\ \A i, j \in 1..Len(out) : i < j => Before(out[i], out[j])
           /\ \A c \in RangeOf(inp) \ RangeOf(out) :
                 \A i \in 1..Len(out) : Before(out[i], c)

\* C12 witness: three candidates were cut to two of equal final score,
\* and the first candidate of the input was not the best
C12_Witness ==
    /\ StageRan("rerank")
    /\ Len(rinfo.scored) = 3
    /\ Len(rinfo.reranked) = 2
    /\ rinfo.reranked[1].score = rinfo.reranked[2].score
    /\ rinfo.scored[1].score < rinfo.reranked[1].score

\* ------------------------------------------------------------------------
\* Properties of the output parser
\* ------------------------------------------------------------------------
Parsed == ppc = "done" /\ pin.op = "parse"

\* C13: parse raises no exception and returns a response whose confidence
\* lies within 0..100, for every text: empty, prose, truncated JSON, JSON
\* that is no object, objects with fields of unexpected type or with a
\* confidence out of range.
C13_ParseTotal ==
    Parsed =>
        /\ ~pout[1].raised
        /\ pout[1].response.confidence >= 0
        /\ pout[1].response.confidence <= 100

\* C13 witness: the text is a JSON object with confidence 150 and parse
\* returned the failure response, with confidence 0
C13_Witness ==
    /\ Parsed
    /\ pin.text.form = "json"
    /\ pin.text.value.t = "obj"
    /\ pin.text.value.confidence = JNum(150)
    /\ ~pout[1].raised
    /\ pout[1].response.confidence = 0
    /\ pout[1].response.reasoning.raw

\* C14: the reasoning of the response of parse is never the empty string,
\* also for a JSON object without reasoning or with an empty one.
C14_ReasoningNonEmpty ==
    Parsed =>
        /\ ~pout[1].raised
        /\ LET reasoning == pout[1].response.reasoning
           IN \/ \E i \in 1..Len(reasoning.pieces) : reasoning.pieces[i] # ""
              \/ reasoning.raw /\ pin.text.form # "empty"

\* some extraction strategy obtains a JSON object from the text: the direct
\* parse, a fenced block or a brace substring, or the repaired substring
ObjectObtained(text) ==
    \/ json_loads(text).ok /\ json_loads(text).value.t = "obj"
    \/ \E i \in 1..Len(pattern_matches(text)) :
          LET match == pattern_matches(text)[i]
          IN match.starts_with_brace /\ match.loads.ok /\ match.loads.value.t = "obj"
    \/ /\ has_open_brace(text) /\ has_close_brace(text)
       /\ fixed_loads(text).ok /\ fixed_loads(text).value.t = "obj"

\* C15: for every text from which no strategy obtains a JSON object, also
\* one without "{" or without "}", parse returns the minimal result: no
\* requirement, the raw text as reasoning, confidence 30.
C15_MinimalResultWhenNoJson ==
    (Parsed /\ ~ObjectObtained(pin.text)) =>
        /\ ~pout[1].raised
        /\ pout[1].response.extracted_requirements = <<>>
        /\ pout[1].response.reasoning = Reasoning(<<>>, TRUE)
        /\ pout[1].response.confidence = 30

\* the requirements of the items that make a valid requirement, in order
ValidRequirements(items) ==
    LET built == [i \in 1..Len(items) |-> build_requirement(i - 1, items[i])]
        kept == SelectSeq(built, LAMBDA b : b.status = "ok")
    IN [j \in 1..Len(kept) |-> kept[j].requirement]

\* C16: an item that cannot be turned into a valid requirement is dropped
\* alone: the response holds the requirements of all other items, in
\* their order, with the reasoning and the confidence of the JSON object.
C16_BadItemDroppedAlone ==
    LET json_data == pin.text.value IN
    (/\ Parsed
     /\ pin.text.form = "json"
     /\ json_data.t = "obj"
     /\ json_data.extracted_requirements.t = "list"
     /\ json_data.reasoning.t = "str"
     /\ json_data.confidence.t = "num" /\ json_data.confidence.n \in 0..100
     /\ json_data.gaps_or_conflicts.t = "absent"
     /\ json_data.uncertainties.t = "absent"
     /\ \E i \in 1..Len(json_data.extracted_requirements.items) :
           build_requirement(i - 1, json_data.extracted_requirements.items[i]).status # "ok")
    => /\ ~pout[1].raised
       /\ pout[1].response.extracted_requirements
              = ValidRequirements(json_data.extracted_requirements.items)
       /\ pout[1].response.reasoning = Reasoning(json_data.reasoning.s, FALSE)
       /\ pout[1].response.confidence = json_data.confidence.n

\* C17: normalizing a priority twice gives what normalizing it once gives,
\* and "high" stays "high".
C17_NormalizeIdempotent ==
    (ppc = "done" /\ pin.op = "normalize_priority") =>
        /\ pout[2] = pout[1]
        /\ pin.priority = JStr(PriorityWords.high) => pout[1].value = JStr(PriorityWords.high)

\* ------------------------------------------------------------------------
\* Properties of the ingestion
\* ------------------------------------------------------------------------
InStore(id) == \E j \in 1..Len(istore) : istore[j] = id

\* C18: a failure while loading, chunking or indexing one file does not stop
\* the others: no failure of a file makes the call raise (it raises only
\* when the chunker or the store cannot be constructed, before any file is
\* taken), and when it has returned the loop has taken every file in order,
\* also those after a failing one, and the store holds every chunk of every
\* file whose three steps succeeded.
C18_IngestIsolatesFailures ==
    icall[1].op = "ingest_documents" =>
    /\ ipc = "raised" => icall[1].setup # "ok"
    /\ ipc = "done" =>
          /\ Len(iseen) = Len(ifiles)
          /\ \A i \in 1..Len(ifiles) :
                /\ iseen[i].file = i
                /\ iseen[i].failed = ifiles[i].fails
                /\ ifiles[i].fails = "none" =>
                      \A k \in 1..ifiles[i].chunks : InStore(<<i, k>>)

\* a file with chunks after a file that failed, and the chunks are stored
C18_Witness ==
    /\ icall[1].op = "ingest_documents"
    /\ ipc = "done"
    /\ \E i, j \in 1..Len(ifiles) :
          /\ i < j
          /\ iseen[i].failed # "none"
          /\ ifiles[j].fails = "none"
          /\ ifiles[j].chunks > 0
          /\ InStore(<<j, ifiles[j].chunks>>)

\* ------------------------------------------------------------------------
\* Properties of the chunking
\* ------------------------------------------------------------------------
\* C19: every chunk a strategy with target size S produces has content of
\* at most S characters, whether a section body was emitted whole or the
\* text was split by the character splitter.
C19_ChunkWithinSize ==
    cpc = "done" =>
        \A i \in 1..Len(cout) : Len(cout[i].content) <= cin.chunk_size

\* a text without a header, longer than the target size, that the splitter
\* cut into several chunks of its section, one of them of the full size
C19_Witness ==
    /\ cpc = "done"
    /\ cin.strategy = "hierarchical"
    /\ Len(cout) > 2
    /\ \A i \in 1..Len(cout) : cout[i].section # None
    /\ \E i \in 1..Len(cout) : Len(cout[i].content) = cin.chunk_size

\* ------------------------------------------------------------------------
\* Properties of repeated retrieval
\* ------------------------------------------------------------------------
\* C20: with the lexical re-ranker, two calls of retrieve with the same
\* query and filters against the same index state return the same chunks in
\* the same order with the same scores.
C20_RetrieveDeterministic ==
    qpc = "done" => qout[1] = qout[2]

\* ------------------------------------------------------------------------
\* Properties of the template choice, the similarity floor and the model
\* scores
\* ------------------------------------------------------------------------
\* C22: the analysis stage builds its prompt from the template of the query
\* type that query processing left in the state: the detected type when the
\* request's type is general, the request's type when it names one.
C22_TemplateOfDetectedType ==
    \A i \in 1..Len(templates) :
        templates[i] = get_template_name(state.query_type)

\* C23: in a call without a section filter, every candidate that leaves
\* stage 1 has a similarity of at least the configured floor, with or
\* without a project filter.
C23_InitialAboveFloor ==
    (StageRan("initial_retrieval") /\ rpc # "raised" /\ rin.section_filter = None) =>
        \A i \in 1..Len(rinfo.initial) :
            rinfo.initial[i].score >= SimilarityThreshold

\* the reply is no number, or a number outside 0..100
Unusable(reply) ==
    reply.kind # "number" \/ reply.value < 0 \/ reply.value > 100

\* C24: a candidate whose reply is not a number, or is a number outside
\* 0..100, gets the model score 50, so that its final score is
\* 0.3 * similarity + 0.7 * 50 / 100.
C24_UnusableReplyScores50 ==
    (StageRan("rerank") /\ rpc # "raised" /\ rin.use_llm_reranking) =>
        \A i \in 1..Len(rinfo.scored) :
            Unusable(rinfo.replies[rinfo.scored[i].doc.chunk_id]) =>
                rinfo.scored[i].score
                    = (3 * rinfo.filtered[i].score) \div 10 + 7 * 50

\* ------------------------------------------------------------------------
\* Properties of the enrichment's lookups
\* ------------------------------------------------------------------------
\* the references enrich looks up: referenced_sections[:max_additional]
LookedUp == SubSeq(rinfo.refs, 1, Min(MaxAdditional, Len(rinfo.refs)))

\* C25: when the secondary lookup of a reference raises, enrich still
\* returns, one lookup has been made for every reference looked up, and
\* every chunk that the lookup of another reference returned is in the
\* result (it was among the candidates or has been added).
C25_FailedLookupSkippedAlone ==
    (StageRan("enrich") /\ \E i \in 1..Len(LookedUp) : rinfo.answers[LookedUp[i]].raises) =>
        /\ rpc # "raised"
        /\ rcalls.store = 1 + Len(LookedUp)
        /\ \A j \in 1..Len(LookedUp) :
            LET answer == rinfo.answers[LookedUp[j]] IN
            ~answer.raises =>
                \A h \in 1..Len(answer.results) :
                    answer.results[h].doc.chunk_id \in IdsOf(rdocs)

\* a lookup raised and the lookup of a later reference added a chunk that
\* was not among the candidates
C25_Witness ==
    /\ StageRan("enrich")
    /\ \E i, j \in 1..Len(LookedUp) :
        /\ i < j
        /\ rinfo.answers[LookedUp[i]].raises
        /\ ~rinfo.answers[LookedUp[j]].raises
        /\ \E h \in 1..Len(rinfo.answers[LookedUp[j]].results) :
            LET id == rinfo.answers[LookedUp[j]].results[h].doc.chunk_id IN
            /\ id \notin IdsOf(rinfo.reranked)
            /\ id \in IdsOf(rdocs)

\* ------------------------------------------------------------------------
\* Properties of the order of the extraction strategies
\* ------------------------------------------------------------------------
\* the JSON object of the first strategy that yields one, in the order
\* whole text, fenced blocks and brace substring, repaired substring
FirstObject(text) ==
    LET direct == json_loads(text)
        matches == pattern_matches(text)
        hits == {i \in 1..Len(matches) :
                    /\ matches[i].starts_with_brace /\ matches[i].loads.ok
                    /\ matches[i].loads.value.t = "obj"}
    IN IF direct.ok /\ direct.value.t = "obj" THEN direct.value
       ELSE IF hits # {}
       THEN matches[CHOOSE i \in hits : \A j \in hits : i <= j].loads.value
       ELSE fixed_loads(text).value

\* C26: the fields of the result come from the first strategy that yields
\* a JSON object: parse returns what it returns for the JSON text of that
\* object alone.
C26_FirstObjectWins ==
    (Parsed /\ ObjectObtained(pin.text)) =>
        pout[1] = parse(Text("json", FirstObject(pin.text)), pin.query)

\* ------------------------------------------------------------------------
\* Properties of the hierarchical strategy on texts without a header
\* ------------------------------------------------------------------------
ContentsOf(chunks) == [i \in 1..Len(chunks) |-> chunks[i].content]

\* C27: for a text without a header line (the cleaned text is one line, and
\* it matches no section pattern), the hierarchical strategy returns the
\* chunks the fallback splitter returns for the cleaned text, and it returns
\* no chunk only for the empty text.
C27_HeaderlessUsesFallback ==
    (/\ cpc = "done"
     /\ cin.strategy = "hierarchical"
     /\ match_section(clean_text(cin.text)) = None) =>
        /\ ContentsOf(cout)
               = ContentsOf(fallback_create_documents(clean_text(cin.text), None,
                                                      cin.chunk_size, cin.chunk_overlap))
        /\ cout = <<>> => clean_text(cin.text) = <<>>

\* ------------------------------------------------------------------------
\* Properties of the page numbers of the chunks
\* ------------------------------------------------------------------------
\* C30: every chunk of chunk_document carries the pages of the [Page N]
\* markers of the part of the raw text it was cut from.  Stated for the
\* chunks whose part is known without following the splitter: no chunk
\* carries a page that no marker of the raw text names, and a chunk that is
\* the only one and holds the whole cleaned text carries the pages of all
\* the markers of the raw text.
C30_ChunkPagesFromMarkers ==
    (cpc = "done" /\ cin.op = "chunk_document") =>
        /\ \A i \in 1..Len(cout) :
               cout[i].page_numbers \subseteq extract_page_numbers(cin.text)
        /\ (Len(cout) = 1 /\ cout[1].content = clean_text(cin.text)) =>
               cout[1].page_numbers = extract_page_numbers(cin.text)

\* ------------------------------------------------------------------------
\* Properties of batch_rerank
\* ------------------------------------------------------------------------
\* C28: for every candidate list and every batch size of at least 1,
\* batch_rerank returns every candidate exactly once with the final score
\* rerank gives it, in non-increasing order of that score, equal scores in
\* their input order; the result is that of one rerank call without top_k.
C28_BatchRerankIsRerank ==
    (upc = "done" /\ uin.op = "batch_rerank") =>
        LET inp == rerank_scored(uin.documents, uin.replies)
            out == uout[1]
            Before(a, b) ==
                \/ a.score > b.score
                \/ a.score = b.score /\ PositionIn(inp, a) < PositionIn(inp, b)
        IN /\ Len(out) = Len(inp)
           /\ \A c \in RangeOf(inp) : \E i \in 1..Len(out) : out[i] = c
           /\ \A i, j \in 1..Len(out) : i < j => Before(out[i], out[j])
           /\ out = rerank(uin.documents, uin.replies, None)

\* C28 witness: four candidates in batches of two; the best candidate is in
\* the second batch, and two candidates of different batches have the same
\* final score
C28_Witness ==
    /\ upc = "done"
    /\ uin.op = "batch_rerank"
    /\ Len(uin.documents) = 4
    /\ uin.batch_size = 2
    /\ uout[1][1].doc.chunk_id = 4
    /\ \E i \in 1..3 :
        /\ uout[1][i].score = uout[1][i + 1].score
        /\ uout[1][i].doc.chunk_id <= 2
        /\ uout[1][i + 1].doc.chunk_id >= 3

\* ------------------------------------------------------------------------
\* Properties of the stored page numbers
\* ------------------------------------------------------------------------
\* C29: the page numbers written by add_chunks and read back by
\* _to_retrieved_chunks are the same sequence of integers, the empty list
\* is read back as the empty list, and a stored value with a piece that is
\* no integer is read as the empty list, without an exception.
C29_PageNumbersRoundTrip ==
    upc = "done" =>
        /\ uin.op = "add_chunks" =>
               /\ ~uout[2].raised
               /\ uout[2].value = uin.page_numbers
        /\ uin.op = "stored" =>
               /\ ~uout[2].raised
               /\ (\E i \in 1..Len(uin.stored) :
                       uin.stored[i] \notin {"0", "1", "2", "3", "4", "5", "6", "7", "8", "9",
                                             ",", " ", "-", "+"})
                      => uout[2].value = <<>>

\* C29 witness: three page numbers, one of them of several digits and one
\* of them 0, were written as one string and read back
C29_Witness ==
    /\ upc = "done"
    /\ uin.op = "add_chunks"
    /\ Len(uin.page_numbers) = 3
    /\ uin.page_numbers[1] = 305
    /\ uin.page_numbers[2] = 0
    /\ uout[1] = <<"3", "0", "5", ",", "0", ",", "1", "2">>
    /\ uout[2].value = <<305, 0, 12>>
====
